---- MODULE Spec2Model ----
(***************************************************************************)
(* The crew recommender of scripts/pipeline/crew_recommender.py:           *)
(* CardDatabase, CooccurrenceMatrix, RuleBasedScorer and CrewRecommender,  *)
(* with one training process (construct, add_crew / train, save) and one   *)
(* recommending process (construct, load, recommend).                      *)
(*                                                                         *)
(* Conventions                                                             *)
(*  - a Python str is a sequence of one-character strings;                 *)
(*  - an Optional value is a sequence of length 0 (None) or 1;             *)
(*  - a dict is a record [keys, val]: keys in insertion order, val the     *)
(*    mapping;                                                             *)
(*  - a Python float read from a literal or from JSON is an integer number *)
(*    of tenths; a rule score is an integer number of 1/10000;             *)
(*  - a numpy float32 is a record [m, e] of value m * 2^e with             *)
(*    2^23 <= m < 2^24 (or m = 0), added with round-to-nearest-even.       *)
(***************************************************************************)
EXTENDS Integers, Sequences, FiniteSets, TLC

(***************************************************************************)
(* Bounds of the model.                                                    *)
(***************************************************************************)
MaxCrews == 3
MaxBatch == 2
MaxFile == 2
MaxLoads == 2

(***************************************************************************)
(* Generic helpers.                                                        *)
(***************************************************************************)
Range(s) == {s[i] : i \in DOMAIN s}

Some(x) == <<x>>

IsSome(o) == Len(o) > 0

RECURSIVE SeqSum(_)
SeqSum(s) == IF s = <<>> THEN 0 ELSE s[1] + SeqSum(Tail(s))

Max2(a, b) == IF a >= b THEN a ELSE b

Min2(a, b) == IF a <= b THEN a ELSE b

(***************************************************************************)
(* Python str: lower(), the `in` substring test, and comparison by code    *)
(* point.                                                                  *)
(***************************************************************************)
UpperChars == <<"B", "C", "D", "E", "G", "I", "L", "O", "R", "S", "W">>

LowerChars == <<"b", "c", "d", "e", "g", "i", "l", "o", "r", "s", "w">>

CodePoints == <<" ", "B", "C", "D", "E", "G", "I", "L", "O", "R", "S", "W",
                "a", "b", "c", "d", "e", "g", "i", "l", "n", "o", "r", "s", "w", "z">>

char_lower(c) ==
    IF \E i \in DOMAIN UpperChars : UpperChars[i] = c
    THEN LowerChars[CHOOSE i \in DOMAIN UpperChars : UpperChars[i] = c]
    ELSE c

str_lower(s) == [i \in 1..Len(s) |-> char_lower(s[i])]

str_in(sub, s) ==
    \E i \in 1..(Len(s) - Len(sub) + 1) : SubSeq(s, i, i + Len(sub) - 1) = sub

ord(c) == CHOOSE i \in DOMAIN CodePoints : CodePoints[i] = c

RECURSIVE str_strip(_)
str_strip(s) ==
    IF s = <<>> THEN s
    ELSE IF s[1] = " " THEN str_strip(Tail(s))
    ELSE IF s[Len(s)] = " " THEN str_strip(SubSeq(s, 1, Len(s) - 1))
    ELSE s

RECURSIVE str_lt(_, _)
str_lt(s, t) ==
    IF t = <<>> THEN FALSE
    ELSE IF s = <<>> THEN TRUE
    ELSE IF s[1] # t[1] THEN ord(s[1]) < ord(t[1])
    ELSE str_lt(Tail(s), Tail(t))

(***************************************************************************)
(* Python dict with insertion order, and defaultdict(list).                *)
(***************************************************************************)
EmptyDict == [keys |-> <<>>, val |-> <<>>]

DictHas(d, k) == k \in DOMAIN d.val

DictSet(d, k, v) ==
    [keys |-> IF DictHas(d, k) THEN d.keys ELSE Append(d.keys, k),
     val  |-> [x \in (DOMAIN d.val) \cup {k} |-> IF x = k THEN v ELSE d.val[x]]]

DictGet(d, k, default) == IF DictHas(d, k) THEN d.val[k] ELSE default

DictAppend(d, k, v) == DictSet(d, k, Append(DictGet(d, k, <<>>), v))

DictValues(d) == [i \in 1..Len(d.keys) |-> d.val[d.keys[i]]]

(***************************************************************************)
(* numpy float32 (the dtype of the matrix and of the appearance vector).   *)
(***************************************************************************)
F32Zero == [m |-> 0, e |-> 0]

RECURSIVE F32Normalize(_, _)
F32Normalize(m, e) ==
    IF m = 0 THEN F32Zero
    ELSE IF m < 8388608 THEN F32Normalize(2 * m, e - 1)
    ELSE [m |-> m, e |-> e]

RECURSIVE DropBits(_)
DropBits(S) == IF S < 16777216 THEN 0 ELSE 1 + DropBits(S \div 2)

\* S * 2^e (plus, when sticky, a nonzero part below the last bit of S)
\* rounded to the nearest float32, ties to even
F32Round(S, e, sticky) ==
    IF S < 16777216 THEN F32Normalize(S, e)
    ELSE LET k    == DropBits(S)
             q    == S \div (2 ^ k)
             r    == S % (2 ^ k)
             half == 2 ^ (k - 1)
             up   == \/ r > half
                     \/ r = half /\ (sticky \/ q % 2 = 1)
             q2   == IF up THEN q + 1 ELSE q
         IN  IF q2 = 16777216 THEN [m |-> 8388608, e |-> e + k + 1]
             ELSE [m |-> q2, e |-> e + k]

F32Add(x, y) ==
    IF x.m = 0 THEN y
    ELSE IF y.m = 0 THEN x
    ELSE LET hi == IF x.e >= y.e THEN x ELSE y
             lo == IF x.e >= y.e THEN y ELSE x
             d  == hi.e - lo.e
         IN  IF d >= 26 THEN hi
             ELSE IF d <= 6 THEN F32Round(hi.m * (2 ^ d) + lo.m, lo.e, FALSE)
             ELSE F32Round(hi.m * 64 + (lo.m \div (2 ^ (d - 6))),
                           hi.e - 6,
                           lo.m % (2 ^ (d - 6)) # 0)

RECURSIVE F32Bits(_, _, _)
F32Bits(m, r, e) ==
    IF m >= 8388608
    THEN F32Round(2 * m + ((2 * r) \div 10), e - 1, (2 * r) % 10 # 0)
    ELSE F32Bits(2 * m + ((2 * r) \div 10), (2 * r) % 10, e - 1)

\* the float32 nearest to the Python float t/10 (t > 0)
F32FromTenths(t) == F32Bits(t \div 10, t % 10, 0)

\* the float32 x as a number of tenths, to the nearest tenth
F32ToTenths(x) ==
    IF x.m = 0 THEN 0
    ELSE IF x.e >= 0 THEN x.m * 10 * (2 ^ x.e)
    ELSE (x.m * 10 + 2 ^ (-x.e - 1)) \div (2 ^ (-x.e))

(***************************************************************************)
(* DEFAULT_CONFIG and load_config.  Floats are in tenths.                  *)
(***************************************************************************)
DEFAULT_CONFIG ==
    [version |-> "1.0.0",
     synergy_weights |->
        [same_keyword |-> 20, master_keyword_match |-> 25,
         versatile_in_keyword |-> 12, out_of_keyword_penalty |-> 6,
         condition_producer_consumer |-> 18, shared_condition_focus |-> 15,
         marker_producer_consumer |-> 20, marker_shared_generation |-> 13,
         role_diversity_bonus |-> 12, role_redundancy_penalty |-> 8,
         henchman_bonus |-> 11, cheap_minion_value |-> 10,
         elite_model_value |-> 11],
     role_targets |->
        [scheme_runner    |-> [min |-> 1, ideal |-> 2, max |-> 3, weight |-> 10],
         beater           |-> [min |-> 1, ideal |-> 2, max |-> 3, weight |-> 10],
         tank             |-> [min |-> 0, ideal |-> 1, max |-> 2, weight |-> 8],
         support          |-> [min |-> 0, ideal |-> 1, max |-> 2, weight |-> 9],
         control          |-> [min |-> 0, ideal |-> 1, max |-> 2, weight |-> 7],
         summoner         |-> [min |-> 0, ideal |-> 1, max |-> 1, weight |-> 5],
         ranged_damage    |-> [min |-> 0, ideal |-> 1, max |-> 2, weight |-> 8],
         condition_engine |-> [min |-> 0, ideal |-> 1, max |-> 2, weight |-> 7]],
     crew_constraints |->
        [target_soulstones |-> 50, min_soulstones |-> 45,
         max_soulstones |-> 50, soulstone_cache_min |-> 3,
         soulstone_cache_max |-> 7, min_models |-> 5, max_models |-> 10],
     learning |->
        [min_cooccurrence |-> 2, smoothing_factor |-> 1,
         recency_weight |-> 12, win_rate_factor |-> 15]]

\* dict.update
dict_update(d, u) ==
    [k \in (DOMAIN d) \cup (DOMAIN u) |-> IF k \in DOMAIN u THEN u[k] ELSE d[k]]

\* the values of a JSON file that are objects (isinstance(value, dict))
IsDictKey(key) ==
    key \in {"synergy_weights", "role_targets", "crew_constraints", "learning"}

\* load_config with the module's DEFAULT_CONFIG as it is at the call:
\* config is a shallow copy, so config[key].update(value) also changes the
\* nested dict of DEFAULT_CONFIG.  config_path: None, or the parsed content
\* of the file it names.  The result: the configuration returned and
\* DEFAULT_CONFIG after the call.
load_config_in(current, config_path) ==
    IF ~IsSome(config_path) THEN [config |-> current, defaults |-> current]
    ELSE LET user_config == config_path[1]
             merged(key) == dict_update(current[key], user_config[key])
             updates(key) == key \in DOMAIN user_config /\ IsDictKey(key)
                             /\ key \in DOMAIN current
         IN  [config |->
                [key \in (DOMAIN current) \cup (DOMAIN user_config) |->
                    IF key \notin DOMAIN user_config THEN current[key]
                    ELSE IF updates(key) THEN merged(key)
                    ELSE user_config[key]],
              defaults |->
                [key \in DOMAIN current |->
                    IF updates(key) THEN merged(key) ELSE current[key]]]

\* the first load_config of a process
load_config(config_path) == load_config_in(DEFAULT_CONFIG, config_path).config

\* a designer's recommender_config.json
UserConfigFile ==
    [learning |-> [smoothing_factor |-> 0, win_rate_factor |-> 640],
     synergy_weights |-> [same_keyword |-> 30]]

\* a configuration that turns the keyword bonus and the boost of winning
\* crews off and wants no tank
FlatConfigFile ==
    [learning |-> [win_rate_factor |-> 10],
     synergy_weights |-> [same_keyword |-> 10],
     role_targets |-> [tank |-> [min |-> 0, ideal |-> 0, max |-> 2, weight |-> 8]]]

ConfigPaths == {<<>>, Some(UserConfigFile), Some(FlatConfigFile)}

\* the files of a process that calls load_config more than once: each
\* section left out or given, the tank target by its min alone or in full
\* the JSON object with the sections that are given
config_file(synergy, roles, learning) ==
    LET given == {k \in {"synergy_weights", "role_targets", "learning"} :
                     \/ k = "synergy_weights" /\ IsSome(synergy)
                     \/ k = "role_targets" /\ IsSome(roles)
                     \/ k = "learning" /\ IsSome(learning)}
    IN  [k \in given |->
            IF k = "synergy_weights" THEN synergy[1]
            ELSE IF k = "role_targets" THEN roles[1]
            ELSE learning[1]]

ConfigFiles ==
    {config_file(sy, ro, le) :
        sy \in {<<>>, Some([same_keyword |-> 30])},
        ro \in {<<>>, Some([tank |-> [min |-> 1]]),
                Some([tank |-> [min |-> 1, ideal |-> 2, max |-> 3, weight |-> 9]])},
        le \in {<<>>, Some([smoothing_factor |-> 0, win_rate_factor |-> 640])}}

ConfigArgs == {<<>>} \cup {Some(f) : f \in ConfigFiles}

(***************************************************************************)
(* cards_enriched.json: the cards, in two exports that differ in order.    *)
(***************************************************************************)
N_Ras == <<"R", "a", "s">>
N_Ice == <<"I", "c", "e">>
N_Gol == <<"G", "o", "l">>
N_Dog == <<"D", "o", "g">>
N_Cog == <<"B", "i", "g", " ", "D", "o", "g">>
N_Son == <<"S", "o", "n">>
N_Sig == <<"S", "i", "g">>

CardRas ==
    [id |-> "ras", name |-> N_Ras, card_type |-> "Stat",
     faction |-> "Arcanists", keywords |-> <<"December">>,
     characteristics |-> <<"Master", "Living">>,
     roles |-> <<"control">>,
     extracted_tags |-> [conditions_applied |-> <<"slow">>]]

CardIce ==
    [id |-> "ice", name |-> N_Ice, card_type |-> "Stat",
     faction |-> "Arcanists", keywords |-> <<"December">>, cost |-> Some(4),
     characteristics |-> <<"Minion">>,
     roles |-> <<"scheme_runner">>,
     extracted_tags |-> [conditions_required |-> <<"slow">>]]

CardGol ==
    [id |-> "gol", name |-> N_Gol, card_type |-> "Stat",
     faction |-> "Arcanists", keywords |-> <<"December", "Construct">>,
     cost |-> Some(9),
     characteristics |-> <<"Enforcer", "Construct">>,
     roles |-> <<"beater", "tank">>,
     extracted_tags |-> [markers_generated |-> <<"ice_pillar">>]]

CardDog ==
    [id |-> "dog", name |-> N_Dog, card_type |-> "Stat",
     faction |-> "Arcanists", keywords |-> <<"Beast", "Versatile">>,
     cost |-> Some(5),
     characteristics |-> <<"Minion", "Beast">>,
     roles |-> <<"beater">>]

CardCog ==
    [id |-> "cog", name |-> N_Cog, card_type |-> "Stat",
     faction |-> "Arcanists", keywords |-> <<"Beast", "Versatile">>,
     cost |-> Some(5),
     characteristics |-> <<"Minion", "Beast">>,
     roles |-> <<"beater">>]

CardSon ==
    [id |-> "son", name |-> N_Son, card_type |-> "Stat",
     faction |-> "Guild", keywords |-> <<"Witch">>,
     characteristics |-> <<"Master">>,
     roles |-> <<"beater", "control">>,
     extracted_tags |-> [conditions_applied |-> <<"burning">>]]

CardSig ==
    [id |-> "sig", name |-> N_Sig, card_type |-> "Upgrade",
     faction |-> "Arcanists", keywords |-> <<"December">>]

CardsExport1 ==
    [cards |-> <<CardRas, CardIce, CardGol, CardDog, CardCog, CardSon, CardSig>>]

CardsExport2 ==
    [cards |-> <<CardSig, CardIce, CardRas, CardSon, CardGol, CardCog, CardDog>>]

CardFiles == {CardsExport1, CardsExport2}

(***************************************************************************)
(* CardDatabase.                                                           *)
(***************************************************************************)
\* dict.get(key, default)
get(d, key, default) == IF key \in DOMAIN d THEN d[key] ELSE default

ModelProfile(card) ==
    LET chars == get(card, "characteristics", <<>>)
        tags  == get(card, "extracted_tags", <<>>)
        station ==
            IF "Master" \in Range(chars) THEN "Master"
            ELSE IF "Henchman" \in Range(chars) THEN "Henchman"
            ELSE IF "Enforcer" \in Range(chars) THEN "Enforcer"
            ELSE IF "Totem" \in Range(chars) THEN "Totem"
            ELSE IF "Minion" \in Range(chars) THEN "Minion"
            ELSE "Unknown"
    IN  [id |-> get(card, "id", ""),
         name |-> get(card, "name", <<>>),
         faction |-> get(card, "faction", ""),
         keywords |-> get(card, "keywords", <<>>),
         cost |-> get(card, "cost", <<>>),
         station |-> station,
         roles |-> get(card, "roles", <<>>),
         role_confidence |-> get(card, "role_confidence", <<>>),
         conditions_applied |-> get(tags, "conditions_applied", <<>>),
         conditions_required |-> get(tags, "conditions_required", <<>>),
         markers_generated |-> get(tags, "markers_generated", <<>>),
         markers_consumed |-> get(tags, "markers_consumed", <<>>),
         summons |-> get(tags, "summons", <<>>),
         versatile |-> "Versatile" \in Range(get(card, "keywords", <<>>)),
         characteristics |-> chars]

RECURSIVE index_keywords(_, _, _)
index_keywords(keyword_models, keywords, id) ==
    IF keywords = <<>> THEN keyword_models
    ELSE index_keywords(DictAppend(keyword_models, keywords[1], id),
                        Tail(keywords), id)

RECURSIVE _load_cards(_, _)
_load_cards(db, cards) ==
    IF cards = <<>> THEN db
    ELSE LET card == cards[1]
             profile == ModelProfile(card)
         IN  IF get(card, "card_type", "") # "Stat"
             THEN _load_cards(db, Tail(cards))
             ELSE _load_cards(
                    [models |-> DictSet(db.models, profile.id, profile),
                     name_to_id |->
                        DictSet(db.name_to_id, str_lower(profile.name), profile.id),
                     faction_models |->
                        DictAppend(db.faction_models, profile.faction, profile.id),
                     keyword_models |->
                        index_keywords(db.keyword_models, profile.keywords,
                                       profile.id)],
                    Tail(cards))

CardDatabase(cards_file) ==
    _load_cards([models |-> EmptyDict, name_to_id |-> EmptyDict,
                 faction_models |-> EmptyDict, keyword_models |-> EmptyDict],
                get(cards_file, "cards", <<>>))

get_by_id(db, model_id) ==
    IF DictHas(db.models, model_id) THEN Some(db.models.val[model_id]) ELSE <<>>

RECURSIVE fuzzy_match(_, _, _)
fuzzy_match(db, name_lower, i) ==
    IF i > Len(db.name_to_id.keys) THEN <<>>
    ELSE LET stored_name == db.name_to_id.keys[i]
             model_id == db.name_to_id.val[stored_name]
         IN  IF str_in(name_lower, stored_name) \/ str_in(stored_name, name_lower)
             THEN get_by_id(db, model_id)
             ELSE fuzzy_match(db, name_lower, i + 1)

\* get_by_name without its exact stage: every name goes to the partial match.
get_by_name_partial_only(db, name) == fuzzy_match(db, str_lower(name), 1)

\* Optional[ModelProfile]
get_by_name(db, name) ==
    LET model_id == DictGet(db.name_to_id, str_lower(name), "")
    IN  IF model_id # ""
        THEN get_by_id(db, model_id)
        ELSE fuzzy_match(db, str_lower(name), 1)

get_faction_models(db, faction) ==
    LET ids == DictGet(db.faction_models, faction, <<>>)
    IN  [i \in 1..Len(ids) |-> db.models.val[ids[i]]]

get_keyword_models(db, keyword) ==
    LET ids == DictGet(db.keyword_models, keyword, <<>>)
    IN  [i \in 1..Len(ids) |-> db.models.val[ids[i]]]

(***************************************************************************)
(* Crew (dataclass, with __post_init__).                                   *)
(***************************************************************************)
Crew(leader, faction, models, result) ==
    [leader |-> str_strip(leader),
     faction |-> faction,
     models |-> [i \in 1..Len(models) |-> str_strip(models[i])],
     total_cost |-> 50,
     tournament |-> <<>>,
     player |-> <<>>,
     result |-> result,
     date |-> <<>>]

(***************************************************************************)
(* CooccurrenceMatrix.  Indices are 0-based as in the source.              *)
(***************************************************************************)
CooccurrenceMatrix(card_db, config) ==
    LET model_ids == card_db.models.keys
        n_models == Len(model_ids)
    IN  [card_db |-> card_db,
         config |-> config,
         model_ids |-> model_ids,
         id_to_idx |-> [mid \in Range(model_ids) |->
                          (CHOOSE i \in 1..n_models : model_ids[i] = mid) - 1],
         n_models |-> n_models,
         cooccurrence |-> [i \in 0..(n_models - 1) |->
                             [j \in 0..(n_models - 1) |-> F32Zero]],
         appearance_counts |-> [i \in 0..(n_models - 1) |-> F32Zero],
         n_crews |-> 0]

\* id_to_idx.get(mid): Optional[int]
idx_of(self, mid) ==
    IF mid \in DOMAIN self.id_to_idx THEN Some(self.id_to_idx[mid]) ELSE <<>>

RECURSIVE resolve_names(_, _)
resolve_names(card_db, names) ==
    IF names = <<>> THEN <<>>
    ELSE LET profile == get_by_name(card_db, names[1])
         IN  (IF IsSome(profile) THEN <<profile[1].id>> ELSE <<>>)
             \o resolve_names(card_db, Tail(names))

\* cooccurrence[i, j] += weight
cell_add(cooccurrence, i, j, weight) ==
    [cooccurrence EXCEPT ![i][j] = F32Add(@, weight)]

symmetric_update_oneway(cooccurrence, idx1, idx2, weight) ==
    cell_add(cooccurrence, idx1, idx2, weight)

symmetric_update(cooccurrence, idx1, idx2, weight) ==
    cell_add(cell_add(cooccurrence, idx1, idx2, weight), idx2, idx1, weight)

\* for mid2 in model_ids[i+1:]
RECURSIVE add_crew_inner(_, _, _, _)
add_crew_inner(self, idx1, rest, weight) ==
    IF rest = <<>> THEN self
    ELSE LET idx2 == idx_of(self, rest[1])
         IN  IF ~IsSome(idx2)
             THEN add_crew_inner(self, idx1, Tail(rest), weight)
             ELSE add_crew_inner(
                    [self EXCEPT !.cooccurrence =
                        symmetric_update(@, idx1, idx2[1], weight)],
                    idx1, Tail(rest), weight)

\* for i, mid1 in enumerate(model_ids)
RECURSIVE add_crew_outer(_, _, _)
add_crew_outer(self, model_ids, weight) ==
    IF model_ids = <<>> THEN self
    ELSE LET idx1 == idx_of(self, model_ids[1])
         IN  IF ~IsSome(idx1)
             THEN add_crew_outer(self, Tail(model_ids), weight)
             ELSE add_crew_outer(
                    add_crew_inner(
                        [self EXCEPT !.appearance_counts[idx1[1]] =
                            F32Add(@, weight)],
                        idx1[1], Tail(model_ids), weight),
                    Tail(model_ids), weight)

\* the ids add_crew resolves: the members, then the leader
crew_model_ids(card_db, crew) ==
    LET leader_profile == get_by_name(card_db, crew.leader)
    IN  resolve_names(card_db, crew.models)
        \o (IF IsSome(leader_profile) THEN <<leader_profile[1].id>> ELSE <<>>)

\* weight: a Python float, in tenths
add_crew(self, crew, weight) ==
    LET updated == add_crew_outer(self, crew_model_ids(self.card_db, crew),
                                  F32FromTenths(weight))
    IN  [updated EXCEPT !.n_crews = @ + 1]

get_cooccurrence(self, model_id1, model_id2) ==
    LET idx1 == idx_of(self, model_id1)
        idx2 == idx_of(self, model_id2)
    IN  IF ~IsSome(idx1) \/ ~IsSome(idx2) THEN F32Zero
        ELSE self.cooccurrence[idx1[1]][idx2[1]]

(***************************************************************************)
(* np.log, in fixed point: Ln(n, d) is 10000 * ln(n / d), for n, d > 0 by  *)
(* halving / doubling into [1, 2) and the series of 2 * atanh.             *)
(***************************************************************************)
RECURSIVE LnReduced(_, _)
LnReduced(n, d) ==
    IF d > 65536 THEN LnReduced(n \div 2, d \div 2)
    ELSE LET Z  == ((n - d) * 10000) \div (n + d)
             Z2 == (Z * Z) \div 10000
             Z3 == (Z2 * Z) \div 10000
             Z5 == (Z3 * Z2) \div 10000
             Z7 == (Z5 * Z2) \div 10000
         IN  2 * (Z + Z3 \div 3 + Z5 \div 5 + Z7 \div 7)

\* np.log(0) is -inf and x / 0 is inf (numpy warns and goes on); 0 / 0 is nan
PosInf == 1000000000
NegInf == -1000000000
NaN == 2000000000

RECURSIVE Ln(_, _)
Ln(n, d) ==
    IF n <= 0 /\ d <= 0 THEN NaN
    ELSE IF n <= 0 THEN NegInf
    ELSE IF d <= 0 THEN PosInf
    ELSE IF n >= 2 * d THEN 6931 + Ln(n, 2 * d)
    ELSE IF n < d THEN Ln(2 * n, d) - 6931
    ELSE LnReduced(n, d)

\* get_pmi without its early return on a zero count
get_pmi_unguarded(self, model_id1, model_id2) ==
    LET idx1 == idx_of(self, model_id1)
        idx2 == idx_of(self, model_id2)
    IN  IF ~IsSome(idx1) \/ ~IsSome(idx2) THEN 0
        ELSE LET cooc   == self.cooccurrence[idx1[1]][idx2[1]]
                 count1 == self.appearance_counts[idx1[1]]
                 count2 == self.appearance_counts[idx2[1]]
                 n      == self.n_crews
                 smoothing == self.config.learning.smoothing_factor
             IN  Ln(10 * n * (F32ToTenths(cooc) + smoothing * n),
                    F32ToTenths(count1) * F32ToTenths(count2)
                       + 10 * smoothing * n * n)

\* the PMI in 1/10000; the probabilities are taken to the nearest tenth of
\* the float32 counts
get_pmi(self, model_id1, model_id2) ==
    LET idx1 == idx_of(self, model_id1)
        idx2 == idx_of(self, model_id2)
    IN  IF ~IsSome(idx1) \/ ~IsSome(idx2) THEN 0
        ELSE LET cooc   == self.cooccurrence[idx1[1]][idx2[1]]
                 count1 == self.appearance_counts[idx1[1]]
                 count2 == self.appearance_counts[idx2[1]]
                 n      == self.n_crews
                 smoothing == self.config.learning.smoothing_factor
             IN  IF cooc = F32Zero \/ count1 = F32Zero \/ count2 = F32Zero \/ n = 0
                 THEN 0
                 ELSE Ln(10 * n * (F32ToTenths(cooc) + smoothing * n),
                         F32ToTenths(count1) * F32ToTenths(count2)
                            + 10 * smoothing * n * n)

(***************************************************************************)
(* RuleBasedScorer.  Scores are in 1/10000; a reason "kind:detail" is the  *)
(* tuple <<kind, detail>>; a list of reasons is kept as the set of its     *)
(* elements.  list(S)[0] of a Python set S is an arbitrary element of S.   *)
(***************************************************************************)
RuleBasedScorer(card_db, config) ==
    [config |-> config, weights |-> config.synergy_weights]

\* no keyword taken as generic
NoGenericKeywords == {}

GenericKeywords == {"Versatile", "Living", "Undead", "Construct", "Beast"}

first_of(S) == CHOOSE x \in S : TRUE

\* score *= weight
times(score, weight) == (score * weight) \div 10

\* one `if condition: score *= weights[key]; reasons.append(reason)` step
apply_rule(acc, condition, weight, reason) ==
    IF condition
    THEN [score |-> times(acc.score, weight), reasons |-> acc.reasons \cup {reason}]
    ELSE acc

score_pair(self, model1, model2, leader_keywords) ==
    LET w == self.weights
        shared_keywords ==
            (Range(model1.keywords) \cap Range(model2.keywords)) \ GenericKeywords
        m1_matches == Range(model1.keywords) \cap leader_keywords
        m2_matches == Range(model2.keywords) \cap leader_keywords
        m1_produces == Range(model1.conditions_applied)
        m2_needs == Range(model2.conditions_required)
        m2_produces == Range(model2.conditions_applied)
        m1_needs == Range(model1.conditions_required)
        shared_conditions == m1_produces \cap m2_produces
        m1_generates == Range(model1.markers_generated)
        m2_consumes == Range(model2.markers_consumed)
        m2_generates == Range(model2.markers_generated)
        m1_consumes == Range(model1.markers_consumed)
        m1_roles == Range(model1.roles)
        m2_roles == Range(model2.roles)
        s0 == [score |-> 10000, reasons |-> {}]
        s1 == apply_rule(s0, shared_keywords # {}, w.same_keyword,
                  <<"shared_keyword",
                    IF shared_keywords # {} THEN first_of(shared_keywords) ELSE "">>)
        s2 == apply_rule(s1, leader_keywords # {} /\ m1_matches # {} /\ m2_matches # {},
                  w.master_keyword_match, <<"both_match_leader_keyword">>)
        s3 == apply_rule(s2, m1_produces \cap m2_needs # {},
                  w.condition_producer_consumer,
                  <<"condition_synergy",
                    IF m1_produces \cap m2_needs # {}
                    THEN first_of(m1_produces \cap m2_needs) ELSE "">>)
        s4 == apply_rule(s3, m2_produces \cap m1_needs # {},
                  w.condition_producer_consumer,
                  <<"condition_synergy",
                    IF m2_produces \cap m1_needs # {}
                    THEN first_of(m2_produces \cap m1_needs) ELSE "">>)
        s5 == apply_rule(s4, shared_conditions # {}, w.shared_condition_focus,
                  <<"shared_condition",
                    IF shared_conditions # {} THEN first_of(shared_conditions) ELSE "">>)
        s6 == apply_rule(s5, m1_generates \cap m2_consumes # {},
                  w.marker_producer_consumer,
                  <<"marker_synergy",
                    IF m1_generates \cap m2_consumes # {}
                    THEN first_of(m1_generates \cap m2_consumes) ELSE "">>)
        s7 == apply_rule(s6, m2_generates \cap m1_consumes # {},
                  w.marker_producer_consumer,
                  <<"marker_synergy",
                    IF m2_generates \cap m1_consumes # {}
                    THEN first_of(m2_generates \cap m1_consumes) ELSE "">>)
    IN  IF m1_roles \cap m2_roles = {}
        THEN apply_rule(s7, TRUE, w.role_diversity_bonus, <<"role_diversity">>)
        ELSE apply_rule(s7, Cardinality(m1_roles \cap m2_roles) > 1,
                        w.role_redundancy_penalty, <<"role_overlap">>)

\* collections.Counter over the roles of the crew
role_count(current_crew, role) ==
    SeqSum([i \in 1..Len(current_crew) |->
              Cardinality({k \in DOMAIN current_crew[i].roles :
                              current_crew[i].roles[k] = role})])

\* no role target contributes
role_bonus_of_none(target, current_count, carried) == 0

\* the contribution of one role target to role_bonus, in 1/10000
role_bonus_of(target, current_count, carried) ==
    IF ~carried THEN 0
    ELSE IF current_count < target.min THEN target.weight * 300
    ELSE IF current_count < target.ideal THEN target.weight * 100
    ELSE IF current_count >= target.max THEN -(target.weight * 200)
    ELSE 0

role_reasons_of(role, target, current_count, carried) ==
    IF ~carried THEN {}
    ELSE IF current_count < target.min THEN {<<"fills_gap", role>>}
    ELSE IF current_count < target.ideal THEN {}
    ELSE IF current_count >= target.max THEN {<<"excess", role>>}
    ELSE {}

RECURSIVE role_bonus_sum(_, _, _, _)
role_bonus_sum(roles, role_targets, candidate, current_crew) ==
    IF roles = {} THEN 0
    ELSE LET role == first_of(roles)
         IN  role_bonus_of(role_targets[role], role_count(current_crew, role),
                           role \in Range(candidate.roles))
             + role_bonus_sum(roles \ {role}, role_targets, candidate, current_crew)

\* score_addition past its early return: the average pair score plus the
\* role balance; leader: Optional[ModelProfile]
score_with_crew(self, candidate, current_crew, leader) ==
    LET leader_keywords ==
            IF IsSome(leader) THEN Range(leader[1].keywords) ELSE {}
        pairs == [i \in 1..Len(current_crew) |->
                    score_pair(self, candidate, current_crew[i], leader_keywords)]
        total_score == SeqSum([i \in 1..Len(pairs) |-> pairs[i].score])
        avg_score == total_score \div Len(current_crew)
        role_targets == self.config.role_targets
        role_bonus == role_bonus_sum(DOMAIN role_targets, role_targets,
                                     candidate, current_crew)
    IN  [score |-> avg_score + role_bonus,
         reasons |->
            UNION {pairs[i].reasons : i \in 1..Len(pairs)}
            \cup UNION {role_reasons_of(role, role_targets[role],
                            role_count(current_crew, role),
                            role \in Range(candidate.roles))
                        : role \in DOMAIN role_targets}]

\* an empty crew given the role balance of the candidate
score_addition_balanced_when_empty(self, candidate, current_crew, leader) ==
    IF current_crew = <<>>
    THEN [score |-> 10000 + role_bonus_sum(DOMAIN self.config.role_targets,
                                           self.config.role_targets,
                                           candidate, current_crew),
          reasons |-> {<<"empty_crew">>}]
    ELSE score_with_crew(self, candidate, current_crew, leader)

\* leader: Optional[ModelProfile]
score_addition(self, candidate, current_crew, leader) ==
    IF current_crew = <<>>
    THEN [score |-> 10000, reasons |-> {<<"empty_crew">>}]
    ELSE score_with_crew(self, candidate, current_crew, leader)

(***************************************************************************)
(* CrewRecommender.                                                        *)
(***************************************************************************)
CrewRecommender(card_db, config) ==
    [card_db |-> card_db,
     config |-> config,
     cooccurrence |-> CooccurrenceMatrix(card_db, config),
     rule_scorer |-> RuleBasedScorer(card_db, config),
     collaborative_weight |-> 7,
     rule_weight |-> 3]

S_win == <<"w", "i", "n">>
S_loss == <<"l", "o", "s", "s">>

\* train without its weighting by result
crew_weight_neutral(self, crew) == 10

\* the weight train gives a crew, in tenths
crew_weight(self, crew) ==
    IF crew.result = <<>> THEN 10
    ELSE IF str_in(S_win, str_lower(crew.result)) \/ crew.result = <<"W">>
         THEN self.config.learning.win_rate_factor
    ELSE IF str_in(S_loss, str_lower(crew.result)) \/ crew.result = <<"L">>
         THEN 8
    ELSE 10

RECURSIVE train(_, _)
train(self, crews) ==
    IF crews = <<>> THEN self
    ELSE train([self EXCEPT !.cooccurrence =
                    add_crew(@, crews[1], crew_weight(self, crews[1]))],
               Tail(crews))

RECURSIVE sum_pmi(_, _, _)
sum_pmi(cooccurrence, candidate_id, ids) ==
    IF ids = {} THEN 0
    ELSE LET mid == first_of(ids)
         IN  get_pmi(cooccurrence, candidate_id, mid)
             + sum_pmi(cooccurrence, candidate_id, ids \ {mid})

\* the score left as computed, outside any range
no_clamp(score) == score

\* max(0.1, min(2.0, score))
clamp(score) == Max2(1000, Min2(20000, score))

\* 1.0 + (avg_pmi / 5.0), in 1/10000
pmi_score(self, candidate, current_ids) ==
    LET total_pmi == sum_pmi(self.cooccurrence, candidate.id, current_ids)
        avg_pmi == total_pmi \div Cardinality(current_ids)
    IN  10000 + avg_pmi \div 5

\* in 1/10000
_collaborative_score(self, candidate, current_ids) ==
    IF current_ids = {} \/ self.cooccurrence.n_crews = 0 THEN 10000
    ELSE clamp(pmi_score(self, candidate, current_ids))

RECURSIVE resolve_profiles(_, _)
resolve_profiles(card_db, names) ==
    IF names = <<>> THEN <<>>
    ELSE LET profile == get_by_name(card_db, names[1])
         IN  (IF IsSome(profile) THEN profile ELSE <<>>)
             \o resolve_profiles(card_db, Tail(names))

\* the first Master of the list: Optional[ModelProfile]
RECURSIVE first_master(_)
first_master(profiles) ==
    IF profiles = <<>> THEN <<>>
    ELSE IF profiles[1].station = "Master" THEN Some(profiles[1])
    ELSE first_master(Tail(profiles))

\* the candidates with the models already in the crew left in
keep_selected(candidates, current_ids) == candidates

\* [c for c in candidates if c.id not in current_ids]
filter_selected(candidates, current_ids) ==
    SelectSeq(candidates, LAMBDA c : c.id \notin current_ids)

\* list.sort(key=score, reverse=True): stable, descending
RECURSIVE insert_desc(_, _)
insert_desc(sorted, x) ==
    IF sorted = <<>> THEN <<x>>
    ELSE IF sorted[1].score >= x.score
         THEN <<sorted[1]>> \o insert_desc(Tail(sorted), x)
         ELSE <<x>> \o sorted

\* a sort that is not stable: equal scores end in reverse order
RECURSIVE insert_desc_unstable(_, _)
insert_desc_unstable(sorted, x) ==
    IF sorted = <<>> THEN <<x>>
    ELSE IF sorted[1].score > x.score
         THEN <<sorted[1]>> \o insert_desc_unstable(Tail(sorted), x)
         ELSE <<x>> \o sorted

RECURSIVE sort_desc_unstable(_)
sort_desc_unstable(scored) ==
    IF scored = <<>> THEN <<>>
    ELSE insert_desc_unstable(
            sort_desc_unstable(SubSeq(scored, 1, Len(scored) - 1)),
            scored[Len(scored)])

RECURSIVE sort_desc(_)
sort_desc(scored) ==
    IF scored = <<>> THEN <<>>
    ELSE insert_desc(sort_desc(SubSeq(scored, 1, Len(scored) - 1)),
                     scored[Len(scored)])

\* scored[:n]
take(scored, n) ==
    IF n >= 0 THEN SubSeq(scored, 1, Min2(n, Len(scored)))
    ELSE SubSeq(scored, 1, Max2(0, Len(scored) + n))

\* the profiles and the ids recommend resolves from current_models
current_profiles_of(self, current_models) ==
    resolve_profiles(self.card_db, current_models)

current_ids_of(self, current_models) ==
    LET current_profiles == current_profiles_of(self, current_models)
    IN  {current_profiles[i].id : i \in 1..Len(current_profiles)}

\* leader: Optional[str]; the result: Optional[ModelProfile]
leader_profile_of(self, current_models, leader) ==
    IF IsSome(leader) /\ leader[1] # <<>>
    THEN get_by_name(self.card_db, leader[1])
    ELSE first_master(current_profiles_of(self, current_models))

\* the candidates before the already-selected ones are filtered out
candidate_pool(self, current_models, faction, leader) ==
    LET leader_profile == leader_profile_of(self, current_models, leader)
    IN  IF IsSome(faction) /\ faction[1] # ""
        THEN get_faction_models(self.card_db, faction[1])
        ELSE IF IsSome(leader_profile)
             THEN get_faction_models(self.card_db, leader_profile[1].faction)
        ELSE DictValues(self.card_db.models)

\* a blend that leaves the rule score out
blend_collaborative_only(self, collab_score, rule_score) ==
    self.collaborative_weight * collab_score

\* collaborative_weight * collab_score + rule_weight * rule_score
blend(self, collab_score, rule_score) ==
    self.collaborative_weight * collab_score + self.rule_weight * rule_score

\* faction, leader: Optional; the final score is in 1/100000
recommend(self, current_models, faction, leader, n_recommendations) ==
    LET current_profiles == current_profiles_of(self, current_models)
        current_ids == current_ids_of(self, current_models)
        leader_profile == leader_profile_of(self, current_models, leader)
        candidates ==
            filter_selected(candidate_pool(self, current_models, faction, leader),
                            current_ids)
        scored ==
            [i \in 1..Len(candidates) |->
                LET candidate == candidates[i]
                    collab_score == _collaborative_score(self, candidate, current_ids)
                    rule == score_addition(self.rule_scorer, candidate,
                                           current_profiles, leader_profile)
                IN  [model |-> candidate.name,
                     model_id |-> candidate.id,
                     score |-> blend(self, collab_score, rule.score),
                     collaborative_score |-> collab_score,
                     rule_score |-> rule.score,
                     reasons |-> rule.reasons,
                     cost |-> candidate.cost,
                     roles |-> candidate.roles,
                     keywords |-> candidate.keywords]]
    IN  take(sort_desc(scored), n_recommendations)

\* the pickled state
save(self) ==
    [cooccurrence |-> self.cooccurrence.cooccurrence,
     appearance_counts |-> self.cooccurrence.appearance_counts,
     n_crews |-> self.cooccurrence.n_crews,
     model_ids |-> self.cooccurrence.model_ids,
     config |-> self.config]

load(self, state) ==
    [self EXCEPT !.cooccurrence.cooccurrence = state.cooccurrence,
                 !.cooccurrence.appearance_counts = state.appearance_counts,
                 !.cooccurrence.n_crews = state.n_crews,
                 !.config = state.config]

(***************************************************************************)
(* The inputs: crew records (crews.json), the explicit weights of a direct *)
(* add_crew call, and the recommend queries.                               *)
(***************************************************************************)
N_ICE == <<"I", "C", "E">>
N_zz == <<"z", "z">>
N_Gol_padded == <<" ", "G", "o", "l">>

R_none == <<>>
R_Win == <<"W", "i", "n">>
R_loss == <<"l", "o", "s", "s">>

\* the leader is also a member
CrewLeaderTwice(result) == Crew(N_Ras, "Arcanists", <<N_Ras, N_Ice>>, result)

\* no id twice; one name in another case, one name of no card
CrewPlain(result) == Crew(N_Ras, "Arcanists", <<N_ICE, N_Gol, N_zz>>, result)

\* one member three times
CrewMemberThrice(result) ==
    Crew(N_Ras, "Arcanists", <<N_Ice, N_Ice, N_Ice>>, result)

\* no leader; a padded name
CrewNoLeader(result) == Crew(<<>>, "Arcanists", <<N_Gol_padded>>, result)

\* the crews of train
CrewPool ==
    {CrewLeaderTwice(R_none), CrewPlain(R_Win), CrewPlain(R_loss),
     CrewNoLeader(R_loss)}

\* a direct add_crew call names its weight
DirectCrews ==
    {CrewLeaderTwice(R_none), CrewMemberThrice(R_none), CrewNoLeader(R_none)}

Weights == {5, 10}

Batches == UNION {[1..n -> CrewPool] : n \in 1..MaxBatch}

\* the crews.json files given to the train command
FileCrews ==
    {CrewPlain(R_none), CrewMemberThrice(R_Win), CrewLeaderTwice(R_loss),
     CrewNoLeader(R_none)}

CrewFiles == UNION {[1..n -> FileCrews] : n \in 0..MaxFile}

(***************************************************************************)
(* build.py: the build pipeline.                                           *)
(*                                                                         *)
(* The project tree is a function from the files build.py looks at to      *)
(* their contents; NoFile is a file that does not exist (for the two input *)
(* directories, which ensure_dirs always creates: one with no file of the  *)
(* hashed extensions in it).  A source file's content is <<version>>; a    *)
(* built file's content is the tuple of the contents it was made from.     *)
(* hash_file is injective on contents (MD5 collisions are left out).       *)
(***************************************************************************)
MaxRuns == 2
MaxEdits == 1

Scripts ==
    {"parse_cards.py", "tag_extractor.py", "parse_objective_cards.py", "crew_recommender.py"}

SourceFiles ==
    Scripts \cup {"card_pdfs", "objective_images", "tournament_crews", "taxonomy.json",
                  "faction_meta.py", "recommender_config.json"}

IntermediateFiles ==
    {"cards_raw.json", "cards_tagged.json", "objectives_raw.json",
     "cards_enriched.json", "objectives_enriched.json", "recommendations.json"}

DistFiles ==
    {"dist/cards.json", "dist/objectives.json", "dist/recommendations.json",
     "dist/faction_meta.json"}

NoFile == <<>>

exists(fs, path) == fs[path] # NoFile

hash_file(fs, path) == fs[path]

\* the dict {key: hash_file(path_of[key])} over the keys whose file exists
hashes_of(fs, keys, path_of(_)) ==
    [k \in {key \in keys : exists(fs, path_of(key))} |-> hash_file(fs, path_of(k))]

same_path(key) == key

hash_directory(fs, directory) == hashes_of(fs, {directory}, same_path)

files_changed(old_hashes, new_hashes) == old_hashes # new_hashes

\* an empty dict of hashes
NoHashes == [key \in {} |-> NoFile]

\* BuildState(): no step has recorded hashes
BuildState == [last_build |-> 0, file_hashes |-> [name \in {} |-> NoHashes]]

\* BuildState.load: the state file's content, or a fresh BuildState
BuildState_load(state_file) == IF IsSome(state_file) THEN state_file[1] ELSE BuildState

\* self.state.file_hashes.get(self.name, {})
old_hashes_of(state, name) ==
    IF name \in DOMAIN state.file_hashes
    THEN state.file_hashes[name]
    ELSE NoHashes

\* PipelineStep.update_state, given the step's get_input_hashes()
update_state(state, name, input_hashes) ==
    [state EXCEPT !.file_hashes =
        [k \in DOMAIN @ \cup {name} |-> IF k = name THEN input_hashes ELSE @[k]]]

\* the common tail of needs_rebuild
hashes_differ(state, name, input_hashes) ==
    files_changed(old_hashes_of(state, name), input_hashes)

Failed(fs) == [ok |-> FALSE, fs |-> fs]

Done(fs) == [ok |-> TRUE, fs |-> fs]

(* Step 1: extract_cards.  parse_cards.py always writes its output.        *)
ExtractCards_get_input_hashes(fs) == hash_directory(fs, "card_pdfs")

ExtractCards_needs_rebuild(fs, state) ==
    \/ ~exists(fs, "cards_raw.json")
    \/ hashes_differ(state, "extract_cards", ExtractCards_get_input_hashes(fs))

ExtractCards_run(fs, returncode) ==
    IF ~exists(fs, "parse_cards.py") THEN Failed(fs)
    ELSE IF returncode # 0 THEN Failed(fs)
    ELSE Done([fs EXCEPT !["cards_raw.json"] = <<fs["card_pdfs"], fs["parse_cards.py"]>>])

(* Step 2: extract_tags.                                                   *)
ExtractTags_get_input_hashes(fs) ==
    hashes_of(fs, {"cards_raw.json", "taxonomy.json"}, same_path)

ExtractTags_needs_rebuild(fs, state) ==
    \/ ~exists(fs, "cards_tagged.json")
    \/ hashes_differ(state, "extract_tags", ExtractTags_get_input_hashes(fs))

ExtractTags_run(fs, returncode) ==
    IF ~exists(fs, "tag_extractor.py") THEN Failed(fs)
    ELSE IF ~exists(fs, "cards_raw.json") THEN Failed(fs)
    ELSE IF returncode # 0 THEN Failed(fs)
    ELSE Done([fs EXCEPT !["cards_tagged.json"] =
                  <<fs["cards_raw.json"], fs["taxonomy.json"], fs["tag_extractor.py"]>>])

(* Step 3: extract_objectives.  parse_objective_cards.py writes its output *)
(* only when it parsed at least one card (`if cards: export_json`).  The   *)
(* objective_images directory exists after ensure_dirs, so run's branch    *)
(* for a missing directory is not taken.                                   *)
ExtractObjectives_get_input_hashes(fs) == hash_directory(fs, "objective_images")

ExtractObjectives_needs_rebuild(fs, state) ==
    \/ ~exists(fs, "objectives_raw.json")
    \/ hashes_differ(state, "extract_objectives", ExtractObjectives_get_input_hashes(fs))

ExtractObjectives_run(fs, returncode) ==
    IF ~exists(fs, "parse_objective_cards.py") THEN Failed(fs)
    ELSE IF returncode # 0 THEN Failed(fs)
    ELSE IF ~exists(fs, "objective_images") THEN Done(fs)
    ELSE Done([fs EXCEPT !["objectives_raw.json"] =
                  <<fs["objective_images"], fs["parse_objective_cards.py"]>>])

(* Step 4: enrich_meta.  faction_data is FACTION_DATA of faction_meta.py   *)
(* when that file is there, else None.                                     *)
EnrichMeta_get_input_hashes(fs) ==
    hashes_of(fs, {"cards_tagged.json", "objectives_raw.json", "faction_meta.py"}, same_path)

EnrichMeta_needs_rebuild(fs, state) ==
    \/ ~exists(fs, "cards_enriched.json") \/ ~exists(fs, "objectives_enriched.json")
    \/ hashes_differ(state, "enrich_meta", EnrichMeta_get_input_hashes(fs))

EnrichMeta_run(fs) ==
    LET faction_data == fs["faction_meta.py"]
    IN  Done([path \in DOMAIN fs |->
                IF path = "cards_enriched.json" /\ exists(fs, "cards_tagged.json")
                THEN <<fs["cards_tagged.json"], faction_data>>
                ELSE IF path = "objectives_enriched.json"
                THEN <<fs["objectives_raw.json"], faction_data>>
                ELSE IF path = "dist/faction_meta.json" /\ faction_data # NoFile
                THEN <<faction_data>>
                ELSE fs[path]])

(* Step 5: train_recommender.  A failing bootstrap or train subprocess is  *)
(* only warned about; recommendations.json is always written and carries   *)
(* the time it was generated.                                              *)
TrainRecommender_get_input_hashes(fs) ==
    hashes_of(fs, {"cards_enriched.json", "recommender_config.json", "tournament_crews"},
              same_path)

TrainRecommender_needs_rebuild(fs, state) ==
    \/ ~exists(fs, "recommendations.json")
    \/ hashes_differ(state, "train_recommender", TrainRecommender_get_input_hashes(fs))

TrainRecommender_run(fs, now) ==
    IF ~exists(fs, "crew_recommender.py") THEN Failed(fs)
    ELSE IF ~exists(fs, "cards_enriched.json") THEN Failed(fs)
    ELSE Done([fs EXCEPT !["recommendations.json"] =
                  <<fs["cards_enriched.json"], fs["crew_recommender.py"], <<now>> >>])

(* Step 6: bundle.                                                         *)
dist_path(key) == IF key = "faction_meta.json" THEN "dist/faction_meta.json" ELSE key

Bundle_get_input_hashes(fs) ==
    hashes_of(fs, {"cards_enriched.json", "objectives_enriched.json",
                   "recommendations.json", "faction_meta.json"}, dist_path)

Bundle_needs_rebuild(fs, state) ==
    \/ \E o \in DistFiles : ~exists(fs, o)
    \/ hashes_differ(state, "bundle", Bundle_get_input_hashes(fs))

\* a placeholder file written when the source is missing
Placeholder == <<NoFile>>

Bundle_run(fs) ==
    Done([path \in DOMAIN fs |->
            IF path = "dist/cards.json" /\ exists(fs, "cards_enriched.json")
            THEN fs["cards_enriched.json"]
            ELSE IF path = "dist/objectives.json"
            THEN IF exists(fs, "objectives_enriched.json")
                 THEN fs["objectives_enriched.json"] ELSE Placeholder
            ELSE IF path = "dist/recommendations.json"
            THEN IF exists(fs, "recommendations.json")
                 THEN fs["recommendations.json"] ELSE Placeholder
            ELSE fs[path]])

\* Pipeline.steps, in order
Steps == <<"extract_cards", "extract_tags", "extract_objectives",
           "enrich_meta", "train_recommender", "bundle">>

\* the steps whose run ends with a subprocess whose return code decides
SubprocessSteps == {"extract_cards", "extract_tags", "extract_objectives"}

get_input_hashes(name, fs) ==
    CASE name = "extract_cards" -> ExtractCards_get_input_hashes(fs)
      [] name = "extract_tags" -> ExtractTags_get_input_hashes(fs)
      [] name = "extract_objectives" -> ExtractObjectives_get_input_hashes(fs)
      [] name = "enrich_meta" -> EnrichMeta_get_input_hashes(fs)
      [] name = "train_recommender" -> TrainRecommender_get_input_hashes(fs)
      [] name = "bundle" -> Bundle_get_input_hashes(fs)

needs_rebuild(name, fs, state) ==
    CASE name = "extract_cards" -> ExtractCards_needs_rebuild(fs, state)
      [] name = "extract_tags" -> ExtractTags_needs_rebuild(fs, state)
      [] name = "extract_objectives" -> ExtractObjectives_needs_rebuild(fs, state)
      [] name = "enrich_meta" -> EnrichMeta_needs_rebuild(fs, state)
      [] name = "train_recommender" -> TrainRecommender_needs_rebuild(fs, state)
      [] name = "bundle" -> Bundle_needs_rebuild(fs, state)

\* step.run(); `failing` names the step whose subprocess returns nonzero
step_run(name, fs, failing, now) ==
    LET returncode == IF name = failing THEN 1 ELSE 0
    IN  CASE name = "extract_cards" -> ExtractCards_run(fs, returncode)
          [] name = "extract_tags" -> ExtractTags_run(fs, returncode)
          [] name = "extract_objectives" -> ExtractObjectives_run(fs, returncode)
          [] name = "enrich_meta" -> EnrichMeta_run(fs)
          [] name = "train_recommender" -> TrainRecommender_run(fs, now)
          [] name = "bundle" -> Bundle_run(fs)

\* a loop that goes on to the next step after a step has failed
RECURSIVE run_from_past_failure(_, _, _, _, _)
run_from_past_failure(i, r, force, failing, now) ==
    IF i > Len(Steps) THEN r
    ELSE LET name == Steps[i]
             needs_run == force \/ needs_rebuild(name, r.fs, r.state)
             result == step_run(name, r.fs, failing, now)
         IN  IF ~needs_run
             THEN run_from_past_failure(i + 1, [r EXCEPT !.up_to_date = Append(@, name)],
                                        force, failing, now)
             ELSE IF result.ok
             THEN run_from_past_failure(i + 1,
                           [r EXCEPT !.ran = Append(@, name),
                                     !.fs = result.fs,
                                     !.state = update_state(r.state, name,
                                                   get_input_hashes(name, result.fs))],
                           force, failing, now)
             ELSE run_from_past_failure(i + 1,
                           [r EXCEPT !.ran = Append(@, name), !.fs = result.fs,
                                     !.failed = Append(@, name), !.success = FALSE],
                           force, failing, now)

\* the loop of Pipeline.run from step i on; r is the run so far: the files,
\* the build state, the steps run, the steps skipped as up to date, the steps
\* whose run returned False, and the success flag
RECURSIVE run_from(_, _, _, _, _)
run_from(i, r, force, failing, now) ==
    IF i > Len(Steps) THEN r
    ELSE LET name == Steps[i]
             needs_run == force \/ needs_rebuild(name, r.fs, r.state)
             result == step_run(name, r.fs, failing, now)
         IN  IF ~needs_run
             THEN run_from(i + 1, [r EXCEPT !.up_to_date = Append(@, name)],
                           force, failing, now)
             ELSE IF result.ok
             THEN run_from(i + 1,
                           [r EXCEPT !.ran = Append(@, name),
                                     !.fs = result.fs,
                                     !.state = update_state(r.state, name,
                                                   get_input_hashes(name, result.fs))],
                           force, failing, now)
             ELSE [r EXCEPT !.ran = Append(@, name), !.fs = result.fs,
                            !.failed = Append(@, name), !.success = FALSE]

\* a run that saves the build state whatever happened
Pipeline_run_always_saving(fs, state_file, force, failing, now) ==
    LET r == run_from(1, [fs |-> fs, state |-> BuildState_load(state_file),
                          ran |-> <<>>, up_to_date |-> <<>>, failed |-> <<>>,
                          success |-> TRUE],
                      force, failing, now)
    IN  [success |-> r.success, ran |-> r.ran, up_to_date |-> r.up_to_date,
         failed |-> r.failed, fs |-> r.fs,
         state_file |-> Some([r.state EXCEPT !.last_build = now])]

\* Pipeline(config).run(force): the state is loaded from the state file and
\* saved to it when the run succeeded and some step ran
Pipeline_run(fs, state_file, force, failing, now) ==
    LET r == run_from(1, [fs |-> fs, state |-> BuildState_load(state_file),
                          ran |-> <<>>, up_to_date |-> <<>>, failed |-> <<>>,
                          success |-> TRUE],
                      force, failing, now)
        any_ran == r.ran # <<>>
    IN  [success |-> r.success, ran |-> r.ran, up_to_date |-> r.up_to_date,
         failed |-> r.failed, fs |-> r.fs,
         state_file |-> IF r.success /\ any_ran
                        THEN Some([r.state EXCEPT !.last_build = now])
                        ELSE state_file]

\* Pipeline.clean: the intermediate directory, the state file in it, and dist
clean(fs) ==
    [path \in DOMAIN fs |->
        IF path \in IntermediateFiles \cup DistFiles THEN NoFile ELSE fs[path]]

\* a checkout: the four scripts and some card PDFs are there
Project(images, faction_meta, recommender) ==
    [path \in SourceFiles \cup IntermediateFiles \cup DistFiles |->
        IF path \in {"parse_cards.py", "tag_extractor.py", "parse_objective_cards.py",
                     "card_pdfs"} THEN <<1>>
        ELSE IF path = "objective_images" THEN images
        ELSE IF path = "faction_meta.py" THEN faction_meta
        ELSE IF path = "crew_recommender.py" THEN recommender
        ELSE NoFile]

\* the complete checkout, and the checkouts that lack the objective images,
\* faction_meta.py or crew_recommender.py
Projects ==
    {Project(<<1>>, <<1>>, <<1>>), Project(NoFile, <<1>>, <<1>>),
     Project(<<1>>, NoFile, <<1>>), Project(<<1>>, <<1>>, NoFile)}

(***************************************************************************)
(* SyntheticCrewGenerator.  random.choice and random.shuffle are inputs:   *)
(* the master chosen, and for each of the three pools the order it is      *)
(* shuffled into (a permutation of its positions).                         *)
(***************************************************************************)
MaxGenerate == 2

SyntheticCrewGenerator(card_db, config) == [card_db |-> card_db, config |-> config]

\* the keywords that are never a master's primary keyword
NotPrimary == {"Versatile", "Living", "Undead", "Construct", "Beast", "Spirit"}

\* Optional[str]: the first keyword of the master that is not generic
primary_keyword_of(master) ==
    LET specific == SelectSeq(master.keywords, LAMBDA kw : kw \notin NotPrimary)
    IN  IF specific = <<>> THEN <<>> ELSE Some(specific[1])

masters_of(self) ==
    SelectSeq(DictValues(self.card_db.models), LAMBDA m : m.station = "Master")

available_for(self, master) ==
    SelectSeq(DictValues(self.card_db.models),
              LAMBDA model : /\ model.station # "Master"
                             /\ model.cost # <<>>
                             /\ ~(model.faction # master.faction /\ ~model.versatile))

keyword_models_of(available, primary_keyword) ==
    SelectSeq(available, LAMBDA m : /\ IsSome(primary_keyword)
                                    /\ primary_keyword[1] \in Range(m.keywords))

versatile_models_of(available) == SelectSeq(available, LAMBDA m : m.versatile)

other_faction_of(available, primary_keyword) ==
    SelectSeq(available,
              LAMBDA m : /\ m \notin Range(keyword_models_of(available, primary_keyword))
                         /\ m \notin Range(versatile_models_of(available)))

\* the three pools with their cost modifiers, in order of preference
priorities_of(self, master) ==
    LET available == available_for(self, master)
        primary_keyword == primary_keyword_of(master)
    IN  <<[model_pool |-> keyword_models_of(available, primary_keyword), cost_modifier |-> 0],
          [model_pool |-> versatile_models_of(available), cost_modifier |-> 0],
          [model_pool |-> other_faction_of(available, primary_keyword), cost_modifier |-> 1]>>

\* random.shuffle(model_pool): the pool in the order the permutation gives
shuffle(model_pool, order) == [k \in 1..Len(model_pool) |-> model_pool[order[k]]]

ShuffleOrders(model_pool) == Permutations(1..Len(model_pool))

\* a hire that would take more than the soulstones left
too_expensive_never(effective_cost, remaining_ss) == FALSE

\* if effective_cost > remaining_ss: continue
too_expensive(effective_cost, remaining_ss) == effective_cost > remaining_ss

\* if len(models) >= 7 or remaining_ss < 3: break
crew_is_full(b) == Len(b.models) >= 7 \/ b.remaining_ss < 3

\* models.append(model.name); remaining_ss -= effective_cost;
\* total_cost += effective_cost; needed_roles -= model_roles.  b is the crew
\* being built, b.hired the hires made (id, effective cost and pool of each)
hire(b, model, effective_cost, pool_no) ==
    [models |-> Append(b.models, model.name),
     remaining_ss |-> b.remaining_ss - effective_cost,
     total_cost |-> b.total_cost + effective_cost,
     needed_roles |-> b.needed_roles \ Range(model.roles),
     hired |-> Append(b.hired, [id |-> model.id,
                                effective_cost |-> effective_cost,
                                pool |-> pool_no])]

\* for model in model_pool, from position k on (the crew after a hire is
\* bound as a value, so that it is evaluated once)
RECURSIVE hire_from(_, _, _, _, _)
hire_from(b, model_pool, k, cost_modifier, pool_no) ==
    IF k > Len(model_pool) THEN b
    ELSE LET model == model_pool[k]
             effective_cost == model.cost[1] + cost_modifier
         IN  IF too_expensive(effective_cost, b.remaining_ss)
             THEN hire_from(b, model_pool, k + 1, cost_modifier, pool_no)
             ELSE CHOOSE crew \in
                     {IF crew_is_full(added) THEN added
                      ELSE hire_from(added, model_pool, k + 1, cost_modifier, pool_no) :
                         added \in {hire(b, model, effective_cost, pool_no)}} : TRUE

\* for model_pool, cost_modifier in priorities, from pool p on
RECURSIVE hire_by_priority(_, _, _, _)
hire_by_priority(b, priorities, orders, p) ==
    IF p > Len(priorities) THEN b
    ELSE CHOOSE crew \in
            {IF crew_is_full(after) THEN after
             ELSE hire_by_priority(after, priorities, orders, p + 1) :
                after \in {hire_from(b, model_pool, 1, priorities[p].cost_modifier, p) :
                              model_pool \in {shuffle(priorities[p].model_pool, orders[p])}}} :
               TRUE

S_synthetic == <<"s", "y", "n", "t", "h", "e", "t", "i", "c">>

\* return None if len(models) < 4, else the Crew; with it the master chosen
\* and the hires made
crew_of(master, b) ==
    [crew |-> IF Len(b.models) < 4 THEN <<>>
              ELSE Some([Crew(master.name, master.faction, b.models, <<>>)
                            EXCEPT !.total_cost = b.total_cost,
                                   !.tournament = S_synthetic]),
     master |-> master.id,
     hired |-> b.hired]

_build_crew_for_master(self, master, orders) ==
    CHOOSE built \in
       {crew_of(master, b) :
           b \in {hire_by_priority(
                     [models |-> <<master.name>>,
                      remaining_ss |-> self.config.crew_constraints.target_soulstones,
                      total_cost |-> 0,
                      needed_roles |-> {"scheme_runner", "beater"},
                      hired |-> <<>>],
                     priorities, orders, 1) :
                        priorities \in {priorities_of(self, master)}}} : TRUE

N_Eel == <<"E", "e", "l">>
N_Rag == <<"R", "a", "g">>

\* a versatile model that also carries the master's keyword
CardEel ==
    [id |-> "eel", name |-> N_Eel, card_type |-> "Stat",
     faction |-> "Arcanists", keywords |-> <<"December", "Versatile">>,
     cost |-> Some(6),
     characteristics |-> <<"Henchman">>,
     roles |-> <<"support">>]

\* a model of the faction outside the keyword
CardRag ==
    [id |-> "rag", name |-> N_Rag, card_type |-> "Stat",
     faction |-> "Arcanists", keywords |-> <<"Vermin">>,
     cost |-> Some(2),
     characteristics |-> <<"Minion">>,
     roles |-> <<"scheme_runner">>]

CardsExport3 ==
    [cards |-> <<CardRas, CardIce, CardGol, CardEel, CardDog, CardCog, CardRag,
                 CardSig>>]

BootstrapCardFiles == {CardsExport1, CardsExport3}

SmallCrewConfigFile == [crew_constraints |-> [target_soulstones |-> 16]]

BootstrapConfigPaths == {<<>>, Some(SmallCrewConfigFile)}

(***************************************************************************)
(* State.                                                                  *)
(*   trainer   the CrewRecommender of the training process                 *)
(*   observed  the <<crew, weight>> pairs given to trainer's add_crew, in  *)
(*             call order                                                  *)
(*   model_pkl the file written by save: Optional                          *)
(*   loader    the CrewRecommender of the recommending process: Optional   *)
(*   pc        the position of each process                                *)
(*   defaults  the module's DEFAULT_CONFIG dict as it is now               *)
(*   loaded    the load_config calls of a library process, in order: the   *)
(*             argument and the configuration returned                     *)
(*   disk      the project tree build.py works on                          *)
(*   build_state_file  .build_state.json: Optional[BuildState]             *)
(*   history   the Pipeline.run invocations so far, in order: arguments,   *)
(*             the steps run and skipped, the result, and what was touched *)
(*             in the tree since the invocation before                     *)
(*   touched   the source files modified since the last invocation         *)
(*             ("clean" for a --clean)                                     *)
(*   bootstrap the bootstrap command: its generator, the generate(n_crews) *)
(*             call in progress (n_crews, the iterations done, the crews   *)
(*             list, whether it has returned) and, for each iteration, the *)
(*             result of _build_crew_for_master                            *)
(***************************************************************************)
VARIABLES trainer, observed, model_pkl, loader, pc, defaults, loaded,
          disk, build_state_file, history, touched, bootstrap

build_vars == <<disk, build_state_file, history, touched>>

engine_vars == <<trainer, observed, model_pkl, loader, pc, defaults, loaded>>

vars == <<engine_vars, build_vars, bootstrap>>

\* no build has been started in the checkout
NoBuild ==
    /\ disk = Project(<<1>>, <<1>>, <<1>>)
    /\ build_state_file = <<>>
    /\ history = <<>>
    /\ touched = {}
    /\ bootstrap = <<>>

Init ==
    /\ \E cards_file \in CardFiles, config_path \in ConfigPaths :
          trainer = CrewRecommender(CardDatabase(cards_file), load_config(config_path))
    /\ observed = <<>>
    /\ model_pkl = <<>>
    /\ loader = <<>>
    /\ pc = [train |-> "training", rec |-> "start"]
    /\ defaults = DEFAULT_CONFIG
    /\ loaded = <<>>
    /\ NoBuild

\* a direct CooccurrenceMatrix.add_crew call
AddCrew(crew, weight) ==
    /\ pc.train = "training"
    /\ trainer.cooccurrence.n_crews < MaxCrews
    /\ trainer' = [trainer EXCEPT !.cooccurrence = add_crew(@, crew, weight)]
    /\ observed' = Append(observed, <<crew, weight>>)
    /\ UNCHANGED <<model_pkl, loader, pc, defaults, loaded, build_vars, bootstrap>>

\* CrewRecommender.train
Train(crews) ==
    /\ pc.train = "training"
    /\ trainer.cooccurrence.n_crews + Len(crews) <= MaxCrews
    /\ trainer' = train(trainer, crews)
    /\ observed' = observed \o
          [i \in 1..Len(crews) |-> <<crews[i], crew_weight(trainer, crews[i])>>]
    /\ UNCHANGED <<model_pkl, loader, pc, defaults, loaded, build_vars, bootstrap>>

\* the train command after its recommender is constructed: parse the crew
\* file, train, save
TrainCommand(crews) ==
    /\ pc.train = "training"
    /\ observed = <<>>
    /\ trainer' = train(trainer, crews)
    /\ observed' =
          [i \in 1..Len(crews) |-> <<crews[i], crew_weight(trainer, crews[i])>>]
    /\ model_pkl' = Some(save(trainer'))
    /\ pc' = [pc EXCEPT !.train = "saved"]
    /\ UNCHANGED <<loader, defaults, loaded, build_vars, bootstrap>>

\* the recommend command constructs its CrewRecommender
NewRecommender(cards_file, config_path) ==
    /\ pc.rec = "start"
    /\ IsSome(model_pkl)
    /\ loader' = Some(CrewRecommender(CardDatabase(cards_file),
                                      load_config(config_path)))
    /\ pc' = [pc EXCEPT !.rec = "constructed"]
    /\ UNCHANGED <<trainer, observed, model_pkl, defaults, loaded, build_vars, bootstrap>>

\* CrewRecommender.load
Load ==
    /\ pc.rec = "constructed"
    /\ IsSome(model_pkl)
    /\ loader' = Some(load(loader[1], model_pkl[1]))
    /\ pc' = [pc EXCEPT !.rec = "loaded"]
    /\ UNCHANGED <<trainer, observed, model_pkl, defaults, loaded, build_vars, bootstrap>>

\* the learner, one add_crew or train call at a time
Next ==
    \/ \E crew \in DirectCrews, weight \in Weights : AddCrew(crew, weight)
    \/ \E crews \in Batches : Train(crews)

Spec == Init /\ [][Next]_vars

\* the command line: a train command, then a recommend command
NextCli ==
    \/ \E crews \in CrewFiles : TrainCommand(crews)
    \/ \E cards_file \in CardFiles, config_path \in ConfigPaths :
          NewRecommender(cards_file, config_path)
    \/ Load

SpecCli == Init /\ [][NextCli]_vars

\* a process that uses the module as a library and calls load_config
InitConfig ==
    /\ trainer = <<>>
    /\ observed = <<>>
    /\ model_pkl = <<>>
    /\ loader = <<>>
    /\ pc = [train |-> "start", rec |-> "start"]
    /\ defaults = DEFAULT_CONFIG
    /\ loaded = <<>>
    /\ NoBuild

LoadConfig(config_path) ==
    /\ Len(loaded) < MaxLoads
    /\ defaults' = load_config_in(defaults, config_path).defaults
    /\ loaded' = Append(loaded,
                        [config_path |-> config_path,
                         config |-> load_config_in(defaults, config_path).config])
    /\ UNCHANGED <<trainer, observed, model_pkl, loader, pc, build_vars, bootstrap>>

NextConfig == \E config_path \in ConfigArgs : LoadConfig(config_path)

SpecConfig == InitConfig /\ [][NextConfig]_vars

(***************************************************************************)
(* Vocabulary of the properties.                                           *)
(***************************************************************************)
ModelIds == {"ras", "ice", "gol", "dog", "cog", "son"}

\* the set of ids a crew names, each once
crew_id_set(card_db, crew) == Range(crew_model_ids(card_db, crew))

RECURSIVE F32SumSeq(_)
F32SumSeq(ws) ==
    IF ws = <<>> THEN F32Zero
    ELSE F32Add(F32SumSeq(SubSeq(ws, 1, Len(ws) - 1)), ws[Len(ws)])

\* the float32 sum, in call order, of the weights of the observed crews that
\* satisfy Has
WeightOfCrews(Has(_)) ==
    F32SumSeq([i \in 1..Len(SelectSeq(observed, LAMBDA o : Has(o[1]))) |->
                  F32FromTenths(SelectSeq(observed, LAMBDA o : Has(o[1]))[i][2])])

(***************************************************************************)
(* C1  Symmetry: after any sequence of add_crew calls,                     *)
(* get_cooccurrence(a, b) = get_cooccurrence(b, a) for all ids a and b.    *)
(***************************************************************************)
C1_Symmetry ==
    \A a \in ModelIds \cup {"sig"}, b \in ModelIds \cup {"sig"} :
        get_cooccurrence(trainer.cooccurrence, a, b)
            = get_cooccurrence(trainer.cooccurrence, b, a)

\* a crew naming a model twice has been added and left a nonzero cell
C1_Witness ==
    /\ \E i \in 1..Len(observed) :
          Len(crew_model_ids(trainer.card_db, observed[i][1]))
             > Cardinality(crew_id_set(trainer.card_db, observed[i][1]))
    /\ get_cooccurrence(trainer.cooccurrence, "ras", "ice") # F32Zero

(***************************************************************************)
(* C2  Appearance weight: after any sequence of add_crew calls the         *)
(* appearance weight of every model is the sum of the weights of the crews *)
(* in which it appeared, each crew counted once for that model.            *)
(***************************************************************************)
appearance_of(self, model_id) ==
    self.appearance_counts[self.id_to_idx[model_id]]

C2_AppearanceIsCrewWeightSum ==
    \A m \in ModelIds :
        appearance_of(trainer.cooccurrence, m)
            = WeightOfCrews(LAMBDA crew : m \in crew_id_set(trainer.card_db, crew))

(***************************************************************************)
(* C3  Co-occurrence: for two distinct models A and B,                     *)
(* get_cooccurrence(A, B) is the sum of the weights of the observed crews  *)
(* that contain both, each crew contributing its weight once.              *)
(***************************************************************************)
C3_CooccurrenceIsCrewWeightSum ==
    \A a \in ModelIds, b \in ModelIds :
        a # b =>
            get_cooccurrence(trainer.cooccurrence, a, b)
                = WeightOfCrews(LAMBDA crew :
                                    {a, b} \subseteq crew_id_set(trainer.card_db, crew))

(***************************************************************************)
(* C4  Order independence: training on the observed crews in any other     *)
(* order gives the same matrix, the same appearance vector and the same    *)
(* n_crews.                                                                *)
(***************************************************************************)
\* train was (or could have been) the caller of every observed add_crew
ObservedByTrain ==
    \A i \in 1..Len(observed) : observed[i][2] = crew_weight(trainer, observed[i][1])

retrained(order) ==
    train(CrewRecommender(trainer.card_db, trainer.config),
          [i \in 1..Len(observed) |-> observed[order[i]][1]]).cooccurrence

C4_OrderIndependent ==
    ObservedByTrain =>
        \A order \in Permutations(1..Len(observed)) :
            /\ retrained(order).cooccurrence = trainer.cooccurrence.cooccurrence
            /\ retrained(order).appearance_counts
                  = trainer.cooccurrence.appearance_counts
            /\ retrained(order).n_crews = trainer.cooccurrence.n_crews

(***************************************************************************)
(* The recommend queries, and the recommenders that can be asked.          *)
(***************************************************************************)
CurrentLists == {<<>>, <<N_ICE>>, <<N_Ras, N_Ice>>, <<N_Gol, N_zz>>}

Factions == {<<>>, Some("Arcanists")}

LeaderArgs == {<<>>, Some(N_Ras), Some(N_zz)}

Sizes == {2, 10}

Queries ==
    [current_models : CurrentLists, faction : Factions,
     leader : LeaderArgs, n : Sizes]

\* the recommenders that answer queries: the one of the train command once it
\* has saved, the one of the recommend command once it has loaded
Recommenders ==
    (IF pc.train = "saved" /\ pc.rec = "start" THEN {trainer} ELSE {})
    \cup (IF pc.rec = "loaded" THEN {loader[1]} ELSE {})

recommend_query(self, q) ==
    recommend(self, q.current_models, q.faction, q.leader, q.n)

(***************************************************************************)
(* C5  No self-recommendation: no recommendation returned by recommend has *)
(* the id of a model resolved from current_models.                         *)
(***************************************************************************)
resolved_ids(card_db, names) ==
    {get_by_name(card_db, names[i])[1].id :
        i \in {k \in 1..Len(names) : IsSome(get_by_name(card_db, names[k]))}}

C5_NoSelfRecommendation ==
    \A self \in Recommenders, q \in Queries :
        LET recs == recommend_query(self, q)
            current == resolved_ids(self.card_db, q.current_models)
        IN  \A i \in 1..Len(recs) : recs[i].model_id \notin current

\* a trained recommender answers a query whose crew resolves to models of
\* the candidate pool
C5_Witness ==
    /\ pc.train = "saved"
    /\ trainer.cooccurrence.n_crews > 0
    /\ \E q \in Queries :
          /\ Len(recommend_query(trainer, q)) > 0
          /\ \E i \in 1..Len(candidate_pool(trainer, q.current_models,
                                            q.faction, q.leader)) :
                candidate_pool(trainer, q.current_models, q.faction, q.leader)[i].id
                    \in resolved_ids(trainer.card_db, q.current_models)

(***************************************************************************)
(* C6  Round trip: save followed by load into a fresh CrewRecommender      *)
(* built on the same card dataset, whatever its configuration, gives for   *)
(* every query the recommend output of the instance that was saved.        *)
(***************************************************************************)
C6_RoundTrip ==
    (pc.rec = "loaded" /\ loader[1].card_db = trainer.card_db) =>
        \A q \in Queries :
            recommend_query(loader[1], q) = recommend_query(trainer, q)

(***************************************************************************)
(* C7  load replaces the in-memory state: after load the matrix, the       *)
(* appearance vector, the crew count, the id ordering and the              *)
(* configuration used by get_pmi and by the rule scorer are those of the   *)
(* persisted artifact.                                                     *)
(***************************************************************************)
C7_LoadReplacesState ==
    pc.rec = "loaded" =>
        LET self == loader[1]
            state == model_pkl[1]
        IN  /\ self.cooccurrence.cooccurrence = state.cooccurrence
            /\ self.cooccurrence.appearance_counts = state.appearance_counts
            /\ self.cooccurrence.n_crews = state.n_crews
            /\ self.cooccurrence.model_ids = state.model_ids
            /\ \A i \in 1..Len(state.model_ids) :
                  idx_of(self.cooccurrence, state.model_ids[i]) = Some(i - 1)
            /\ self.config = state.config
            /\ self.cooccurrence.config.learning.smoothing_factor
                  = state.config.learning.smoothing_factor
            /\ self.rule_scorer.weights = state.config.synergy_weights
            /\ self.rule_scorer.config.role_targets = state.config.role_targets

(***************************************************************************)
(* C8  Order of the result: the list returned by recommend is sorted by    *)
(* final score, descending, and two recommendations of equal final score   *)
(* appear in ascending order of model name.                                *)
(***************************************************************************)
C8_SortedTiesByName ==
    \A self \in Recommenders, q \in Queries :
        LET recs == recommend_query(self, q)
        IN  \A i \in 1..Len(recs), j \in 1..Len(recs) :
                i < j =>
                    /\ recs[i].score >= recs[j].score
                    /\ recs[i].score = recs[j].score
                          => ~str_lt(recs[j].model, recs[i].model)

(***************************************************************************)
(* C8 as amended: the list returned by recommend is sorted by final score, *)
(* descending, and two recommendations of equal final score appear in the  *)
(* order of the candidate pool (the order of the card database).           *)
(***************************************************************************)
pool_index(pool, model_id) == CHOOSE k \in 1..Len(pool) : pool[k].id = model_id

C8_SortedTiesInPoolOrder ==
    \A self \in Recommenders, q \in Queries :
        LET recs == recommend_query(self, q)
            pool == candidate_pool(self, q.current_models, q.faction, q.leader)
        IN  \A i \in 1..Len(recs), j \in 1..Len(recs) :
                i < j =>
                    /\ recs[i].score >= recs[j].score
                    /\ recs[i].score = recs[j].score
                          => pool_index(pool, recs[i].model_id)
                                < pool_index(pool, recs[j].model_id)

\* a trained recommender, asked about a crew that is not empty, returns two
\* equal scores, two different scores, and a candidate ahead of one that
\* precedes it in the pool
C8_Witness ==
    /\ pc.train = "saved"
    /\ trainer.cooccurrence.n_crews > 0
    /\ \E q \in Queries :
          LET recs == recommend_query(trainer, q)
              pool == candidate_pool(trainer, q.current_models, q.faction, q.leader)
          IN  /\ current_ids_of(trainer, q.current_models) # {}
              /\ \E i \in 1..Len(recs), j \in 1..Len(recs) :
                    i < j /\ recs[i].score = recs[j].score
              /\ \E i \in 1..Len(recs), j \in 1..Len(recs) :
                    /\ i < j
                    /\ recs[i].score > recs[j].score
                    /\ pool_index(pool, recs[i].model_id)
                          > pool_index(pool, recs[j].model_id)

(***************************************************************************)
(* C9  PMI neutrality: get_pmi(a, b) is 0.0 whenever n_crews = 0, or       *)
(* either appearance count is zero, or either id is outside the index.     *)
(***************************************************************************)
QueriedIds == ModelIds \cup {"sig", ""}

C9_PmiNeutral ==
    \A self \in Recommenders, a \in QueriedIds, b \in QueriedIds :
        LET m == self.cooccurrence
        IN  (\/ m.n_crews = 0
             \/ a \notin DOMAIN m.id_to_idx
             \/ b \notin DOMAIN m.id_to_idx
             \/ appearance_of(m, a) = F32Zero
             \/ appearance_of(m, b) = F32Zero)
                => get_pmi(m, a, b) = 0

\* crews have been observed, one model appeared and another did not
C9_Witness ==
    /\ pc.train = "saved"
    /\ trainer.cooccurrence.n_crews > 0
    /\ \E a \in ModelIds, b \in ModelIds :
          /\ appearance_of(trainer.cooccurrence, a) = F32Zero
          /\ appearance_of(trainer.cooccurrence, b) # F32Zero
          /\ get_pmi(trainer.cooccurrence, a, b) = 0

(***************************************************************************)
(* C10  Score range: the collaborative score lies in [0.1, 2.0], and is    *)
(* 1.0 when the current crew is empty or no crews have been observed.      *)
(***************************************************************************)
CurrentIdSets == {ids \in SUBSET ModelIds : Cardinality(ids) <= 2}

profile_of(self, model_id) == self.card_db.models.val[model_id]

C10_CollaborativeRange ==
    \A self \in Recommenders, c \in ModelIds, ids \in CurrentIdSets :
        LET score == _collaborative_score(self, profile_of(self, c), ids)
        IN  /\ 1000 <= score /\ score <= 20000
            /\ (ids = {} \/ self.cooccurrence.n_crews = 0) => score = 10000

\* the average PMI of a candidate maps below 0.1
C10_Witness ==
    /\ pc.train = "saved"
    /\ trainer.cooccurrence.n_crews > 0
    /\ \E c \in ModelIds, ids \in CurrentIdSets :
          /\ ids # {}
          /\ pmi_score(trainer, profile_of(trainer, c), ids) < 1000
          /\ _collaborative_score(trainer, profile_of(trainer, c), ids) = 1000

(***************************************************************************)
(* C11  Unresolvable names: a member name that resolves to no card has no  *)
(* effect on the list recommend returns, and a leader name that resolves   *)
(* to no card gives the list of the same query without a leader.           *)
(***************************************************************************)
C11_UnresolvableNames ==
    \A self \in Recommenders, q \in Queries :
        LET recs == recommend_query(self, q)
        IN  /\ ~IsSome(get_by_name(self.card_db, N_zz))
            /\ recommend(self, <<N_zz>> \o q.current_models,
                         q.faction, q.leader, q.n) = recs
            /\ recommend(self, Append(q.current_models, N_zz),
                         q.faction, q.leader, q.n) = recs
            /\ q.leader = Some(N_zz) =>
                  recs = recommend(self, q.current_models, q.faction, <<>>, q.n)

(***************************************************************************)
(* C12  Zero crews: with a learner that has observed no crew every         *)
(* candidate's collaborative score is 1.0, and recommend returns the       *)
(* candidates in descending order of their score_addition score.           *)
(***************************************************************************)
\* the candidates of a query with their score_addition score as the key
by_rule_score(self, q) ==
    LET current_profiles == current_profiles_of(self, q.current_models)
        leader_profile == leader_profile_of(self, q.current_models, q.leader)
        candidates ==
            filter_selected(
                candidate_pool(self, q.current_models, q.faction, q.leader),
                current_ids_of(self, q.current_models))
    IN  [i \in 1..Len(candidates) |->
            [model_id |-> candidates[i].id,
             score |-> score_addition(self.rule_scorer, candidates[i],
                                      current_profiles, leader_profile).score]]

C12_ZeroCrewsRuleOrder ==
    \A self \in Recommenders, q \in Queries :
        self.cooccurrence.n_crews = 0 =>
            LET recs == recommend_query(self, q)
                ranked == take(sort_desc(by_rule_score(self, q)), q.n)
            IN  /\ Len(recs) = Len(ranked)
                /\ \A i \in 1..Len(recs) :
                      /\ recs[i].collaborative_score = 10000
                      /\ recs[i].model_id = ranked[i].model_id
                      /\ recs[i].rule_score = ranked[i].score

\* a recommender without crews ranks, for a crew that is not empty, a
\* candidate ahead of one that precedes it in the pool
C12_Witness ==
    /\ pc.train = "saved"
    /\ trainer.cooccurrence.n_crews = 0
    /\ \E q \in Queries :
          LET recs == recommend_query(trainer, q)
              pool == candidate_pool(trainer, q.current_models, q.faction, q.leader)
          IN  /\ current_ids_of(trainer, q.current_models) # {}
              /\ \E i \in 1..Len(recs), j \in 1..Len(recs) :
                    /\ i < j
                    /\ recs[i].rule_score > recs[j].rule_score
                    /\ pool_index(pool, recs[i].model_id)
                          > pool_index(pool, recs[j].model_id)

(***************************************************************************)
(* C13  Candidate pool: recommend draws its candidates from the models of  *)
(* the given faction when a faction is given; otherwise from the models of *)
(* the resolved leader's faction when a leader is resolved, by its name or *)
(* as a Master among the current members; otherwise from every model; in   *)
(* each case without the ids of the current crew.                          *)
(***************************************************************************)
ids_of(profiles) == {profiles[i].id : i \in 1..Len(profiles)}

\* the leader of a query: the one its name resolves to, or else the first
\* Master among the current members
resolved_leader(self, q) ==
    LET named == IF IsSome(q.leader) /\ q.leader[1] # <<>>
                 THEN get_by_name(self.card_db, q.leader[1])
                 ELSE <<>>
    IN  IF IsSome(named) THEN named
        ELSE first_master(resolve_profiles(self.card_db, q.current_models))

pool_ids(self, q) ==
    (IF IsSome(q.faction) /\ q.faction[1] # ""
     THEN ids_of(get_faction_models(self.card_db, q.faction[1]))
     ELSE IF IsSome(resolved_leader(self, q))
          THEN ids_of(get_faction_models(self.card_db,
                                         resolved_leader(self, q)[1].faction))
     ELSE ids_of(DictValues(self.card_db.models)))
    \ resolved_ids(self.card_db, q.current_models)

C13_CandidatePool ==
    \A self \in Recommenders, q \in Queries :
        LET recs == recommend_query(self, q)
            recommended == {recs[i].model_id : i \in 1..Len(recs)}
        IN  /\ recommended \subseteq pool_ids(self, q)
            /\ Len(recs) = Min2(q.n, Cardinality(pool_ids(self, q)))

(***************************************************************************)
(* C14  Empty crew: score_addition(candidate, [], leader) is 1.0 with the  *)
(* single reason "empty_crew", for every candidate and every leader,       *)
(* no leader included.                                                     *)
(***************************************************************************)
LeaderProfiles(self) ==
    {<<>>} \cup {Some(profile_of(self, m)) : m \in ModelIds}

C14_EmptyCrewNeutral ==
    \A self \in Recommenders, c \in ModelIds :
        \A leader \in LeaderProfiles(self) :
            score_addition(self.rule_scorer, profile_of(self, c), <<>>, leader)
                = [score |-> 10000, reasons |-> {<<"empty_crew">>}]

\* recommend has scored, for a crew of no resolved member and a resolved
\* leader, a candidate that carries a role
C14_Witness ==
    /\ pc.train = "saved"
    /\ \E q \in Queries :
          LET recs == recommend_query(trainer, q)
          IN  /\ current_profiles_of(trainer, q.current_models) = <<>>
              /\ IsSome(leader_profile_of(trainer, q.current_models, q.leader))
              /\ \E i \in 1..Len(recs) :
                    /\ recs[i].roles # <<>>
                    /\ recs[i].rule_score = 10000
                    /\ recs[i].reasons = {<<"empty_crew">>}

(***************************************************************************)
(* Profiles for the pair scores: the cards of the database, and three      *)
(* profiles without tags.                                                  *)
(***************************************************************************)
BareProfile(id, keywords, roles) ==
    ModelProfile([id |-> id, name |-> <<>>, card_type |-> "Stat",
                  faction |-> "Arcanists", keywords |-> keywords,
                  characteristics |-> <<"Minion">>, roles |-> roles])

PairProfiles(self) ==
    {profile_of(self, m) : m \in ModelIds}
    \cup {BareProfile("p1", <<"December", "Beast">>, <<"beater">>),
          BareProfile("p2", <<"December", "Construct">>, <<"tank">>),
          BareProfile("p3", <<"Witch", "Beast">>, <<"control">>)}

shared_of(m1, m2) == Range(m1.keywords) \cap Range(m2.keywords)

\* no condition or marker of one meets the other, and no role is shared
NothingElseShared(m1, m2) ==
    /\ Range(m1.conditions_applied) \cap Range(m2.conditions_required) = {}
    /\ Range(m2.conditions_applied) \cap Range(m1.conditions_required) = {}
    /\ Range(m1.conditions_applied) \cap Range(m2.conditions_applied) = {}
    /\ Range(m1.markers_generated) \cap Range(m2.markers_consumed) = {}
    /\ Range(m2.markers_generated) \cap Range(m1.markers_consumed) = {}
    /\ Range(m1.roles) \cap Range(m2.roles) = {}

CreatureTypes == {"Living", "Undead", "Beast", "Construct"}

OneKeywordOnly(m1, m2) ==
    /\ NothingElseShared(m1, m2)
    /\ Cardinality(shared_of(m1, m2)) = 1
    /\ shared_of(m1, m2) \cap CreatureTypes = {}

SharesNothing(m1, m2) == NothingElseShared(m1, m2) /\ shared_of(m1, m2) = {}

CreatureTypeOnly(m1, m2) ==
    /\ NothingElseShared(m1, m2)
    /\ shared_of(m1, m2) # {}
    /\ shared_of(m1, m2) \subseteq CreatureTypes

shared_keyword_reasons(pair) ==
    {r \in pair.reasons : r[1] = "shared_keyword"}

\* the scores of the pairs of profiles that share nothing
scores_sharing_nothing(self, profiles) ==
    {score_pair(self.rule_scorer, pair[1], pair[2], {}).score :
        pair \in {p \in profiles \X profiles : SharesNothing(p[1], p[2])}}

\* a shared creature type triggers neither the multiplier nor the reason
creature_type_is_neutral(self, profiles) ==
    LET nothing == scores_sharing_nothing(self, profiles)
    IN  \A m1 \in profiles, m2 \in profiles :
            CreatureTypeOnly(m1, m2) =>
                LET pair == score_pair(self.rule_scorer, m1, m2, {})
                IN  /\ \A score \in nothing : pair.score = score
                    /\ shared_keyword_reasons(pair) = {}

\* a pair sharing one keyword carries the reason and outscores every pair
\* sharing nothing
keyword_pair_scores_higher(self, profiles) ==
    LET nothing == scores_sharing_nothing(self, profiles)
    IN  \A m1 \in profiles, m2 \in profiles :
            OneKeywordOnly(m1, m2) =>
                LET pair == score_pair(self.rule_scorer, m1, m2, {})
                IN  /\ shared_keyword_reasons(pair)
                          = {<<"shared_keyword", first_of(shared_of(m1, m2))>>}
                    /\ \A score \in nothing : pair.score > score

ScoredCrews(self) ==
    LET p(m) == profile_of(self, m)
    IN  {<<p("ice")>>, <<p("ras"), p("ice")>>, <<p("gol")>>, <<p("dog")>>,
         <<p("gol"), BareProfile("p2", <<"December", "Construct">>, <<"tank">>)>>,
         <<p("dog"), p("cog"), p("son")>>}

without_role(profile, role) ==
    [profile EXCEPT !.roles = SelectSeq(@, LAMBDA r : r # role)]

\* the average of the pair scores of a candidate with the members of a crew
average_pairwise(self, candidate, crew, leader) ==
    SeqSum([i \in 1..Len(crew) |->
              score_pair(self.rule_scorer, candidate, crew[i],
                         IF IsSome(leader) THEN Range(leader[1].keywords) ELSE {}).score])
        \div Len(crew)

\* the adjustment for one role the candidate carries, in 1/10000: 0.3, 0.1
\* and -0.2 of the weight
role_adjustment(target, count) ==
    IF count < target.min THEN 300 * target.weight
    ELSE IF count < target.ideal THEN 100 * target.weight
    ELSE IF count >= target.max THEN -(200 * target.weight)
    ELSE 0

role_balance_adjustment(self, candidate, crew) ==
    LET targets == self.rule_scorer.config.role_targets
    IN  SeqSum([i \in 1..Len(candidate.roles) |->
                  IF candidate.roles[i] \in DOMAIN targets
                  THEN role_adjustment(targets[candidate.roles[i]],
                                       role_count(crew, candidate.roles[i]))
                  ELSE 0])

score_is_average_plus_balance(self) ==
    \A crew \in ScoredCrews(self), c \in PairProfiles(self) :
        \A leader \in {<<>>, Some(profile_of(self, "ras"))} :
            score_addition(self.rule_scorer, c, crew, leader).score
                = average_pairwise(self, c, crew, leader)
                  + role_balance_adjustment(self, c, crew)

\* with no tank in the crew a tank scores above the same candidate without
\* the role
tank_fills_gap(self) ==
    \A crew \in ScoredCrews(self), c \in PairProfiles(self) :
        ("tank" \in Range(c.roles) /\ role_count(crew, "tank") = 0) =>
            /\ average_pairwise(self, c, crew, <<>>)
                  = average_pairwise(self, without_role(c, "tank"), crew, <<>>)
            /\ score_addition(self.rule_scorer, c, crew, <<>>).score
                  > score_addition(self.rule_scorer, without_role(c, "tank"),
                                   crew, <<>>).score

TankWanted(self) ==
    LET tank == self.rule_scorer.config.role_targets.tank
    IN  tank.weight > 0 /\ (tank.min > 0 \/ tank.ideal > 0)

TargetFields == {"min", "ideal", "max", "weight"}

\* the settings of a section the file names, none when it leaves it out
mentioned(user_config, section) ==
    IF section \in DOMAIN user_config THEN user_config[section] ELSE <<>>

\* a flat section keeps every default the file does not name
section_kept(user_config, config, section) ==
    \A k \in DOMAIN DEFAULT_CONFIG[section] :
        k \notin DOMAIN mentioned(user_config, section) =>
            /\ k \in DOMAIN config[section]
            /\ config[section][k] = DEFAULT_CONFIG[section][k]

\* a role target keeps every default field the file does not name
targets_kept(user_config, config) ==
    \A role \in DOMAIN DEFAULT_CONFIG.role_targets, field \in TargetFields :
        LET roles == mentioned(user_config, "role_targets")
            named == role \in DOMAIN roles /\ field \in DOMAIN roles[role]
        IN  ~named =>
                /\ role \in DOMAIN config.role_targets
                /\ field \in DOMAIN config.role_targets[role]
                /\ config.role_targets[role][field]
                      = DEFAULT_CONFIG.role_targets[role][field]

defaults_kept(config_path, config) ==
    LET user_config == IF IsSome(config_path) THEN config_path[1] ELSE <<>>
    IN  /\ config.version = DEFAULT_CONFIG.version
        /\ section_kept(user_config, config, "synergy_weights")
        /\ section_kept(user_config, config, "crew_constraints")
        /\ section_kept(user_config, config, "learning")
        /\ targets_kept(user_config, config)

C17_MergeKeepsDefaults ==
    Len(loaded) = 1 => defaults_kept(loaded[1].config_path, loaded[1].config)

(***************************************************************************)
(* C18  get_by_name is a two-stage lookup: when some indexed model's name  *)
(* equals the queried name ignoring case, that model's profile is          *)
(* returned; the substring fallback decides only when the exact lookup     *)
(* misses (then the first indexed name, in index order, that contains the  *)
(* query or is contained in it); a name matching nothing returns None.     *)
(***************************************************************************)
N_dog == <<"d", "o", "g">>
N_o == <<"o">>
N_Big == <<"B", "i", "g">>

LookupNames == {N_Dog, N_dog, N_Cog, N_ICE, N_Ras, N_Gol_padded, N_o, N_Big, N_zz}

\* ids of the indexed models whose name equals `name` ignoring case
same_name_ids(db, name) ==
    {id \in ModelIds : /\ DictHas(db.models, id)
                       /\ str_lower(db.models.val[id].name) = str_lower(name)}

\* positions, in index order, of the names that partially match `name`
partial_hits(db, name) ==
    {k \in 1..Len(db.name_to_id.keys) :
        \/ str_in(str_lower(name), db.name_to_id.keys[k])
        \/ str_in(db.name_to_id.keys[k], str_lower(name))}

first_hit(db, name) ==
    CHOOSE k \in partial_hits(db, name) : \A j \in partial_hits(db, name) : k <= j

two_stage(db, name) ==
    LET found == get_by_name(db, name)
    IN  IF same_name_ids(db, name) # {}
        THEN IsSome(found) /\ found[1].id \in same_name_ids(db, name)
        ELSE IF partial_hits(db, name) # {}
        THEN /\ IsSome(found)
             /\ found[1].id = db.name_to_id.val[db.name_to_id.keys[first_hit(db, name)]]
        ELSE found = <<>>

C18_TwoStageLookup == \A name \in LookupNames : two_stage(trainer.card_db, name)

\* add_crew has resolved "ICE" through the exact stage and dropped "zz",
\* and the index lists "big dog" before "dog", which "Dog" must not reach
C18_Witness ==
    /\ \E i \in 1..Len(observed) :
          \E k \in 1..Len(observed[i][1].models) : observed[i][1].models[k] = N_ICE
    /\ appearance_of(trainer.cooccurrence, "ice") # F32Zero
    /\ get_by_name(trainer.card_db, N_zz) = <<>>
    /\ partial_hits(trainer.card_db, N_Dog) # {}
    /\ trainer.card_db.name_to_id.keys[first_hit(trainer.card_db, N_Dog)] = str_lower(N_Cog)
    /\ get_by_name(trainer.card_db, N_Dog)[1].id = "dog"
    /\ get_by_name(trainer.card_db, N_Big)[1].id = "cog"

(***************************************************************************)
(* The build process: `python build.py [--force]`, `python build.py        *)
(* --clean`, and the developer modifying source files in between.          *)
(***************************************************************************)
InitBuild ==
    /\ trainer = <<>>
    /\ observed = <<>>
    /\ model_pkl = <<>>
    /\ loader = <<>>
    /\ pc = [train |-> "start", rec |-> "start"]
    /\ defaults = DEFAULT_CONFIG
    /\ loaded = <<>>
    /\ disk \in Projects
    /\ build_state_file = <<>>
    /\ history = <<>>
    /\ touched = {}
    /\ bootstrap = <<>>

\* main() without --clean or --status: Pipeline(config).run(force=args.force)
Run(force, failing) ==
    /\ Len(history) < MaxRuns
    /\ LET r == Pipeline_run(disk, build_state_file, force, failing, Len(history) + 1)
       IN  /\ disk' = r.fs
           /\ build_state_file' = r.state_file
           /\ history' = Append(history,
                  [force |-> force, ran |-> r.ran,
                   up_to_date |-> r.up_to_date, failed |-> r.failed,
                   success |-> r.success, touched |-> touched])
    /\ touched' = {}
    /\ UNCHANGED <<engine_vars, bootstrap>>

\* the changes made to the tree so far, other than by builds
Edits == Cardinality(touched) + SeqSum([i \in 1..Len(history) |-> Cardinality(history[i].touched)])

\* main() with --clean, on a tree that has been built
Clean ==
    /\ history # <<>>
    /\ Len(history) < MaxRuns
    /\ "clean" \notin touched
    /\ Edits < MaxEdits
    /\ disk' = clean(disk)
    /\ build_state_file' = <<>>
    /\ touched' = touched \cup {"clean"}
    /\ UNCHANGED <<history, engine_vars, bootstrap>>

\* the developer writes a new version of a source file after a build (a
\* change made before the first build gives another checkout)
Modify(path) ==
    /\ history # <<>>
    /\ Len(history) < MaxRuns
    /\ path \notin touched
    /\ Edits < MaxEdits
    /\ disk' = [disk EXCEPT ![path] = IF @ = NoFile THEN <<1>> ELSE <<@[1] + 1>>]
    /\ touched' = touched \cup {path}
    /\ UNCHANGED <<build_state_file, history, engine_vars, bootstrap>>

NextBuild ==
    \/ \E force \in BOOLEAN, failing \in SubprocessSteps \cup {"none"} : Run(force, failing)
    \/ Clean
    \/ \E path \in SourceFiles : Modify(path)

SpecBuild == InitBuild /\ [][NextBuild]_vars

(***************************************************************************)
(* C19  After a Pipeline.run that returned success, an immediately         *)
(* following Pipeline.run without --force, with nothing touched in the     *)
(* tree in between, runs no step: every step is reported up to date.       *)
(***************************************************************************)
C19_SecondRunIsIdle ==
    \A i \in 1..(Len(history) - 1) :
        (/\ history[i].success
         /\ ~history[i + 1].force
         /\ history[i + 1].touched = {})
        => /\ history[i + 1].ran = <<>>
           /\ history[i + 1].up_to_date = Steps

(***************************************************************************)
(* C20  After a successful build, modifying one of parse_cards.py,         *)
(* tag_extractor.py, parse_objective_cards.py or crew_recommender.py, and  *)
(* nothing else, makes the next Pipeline.run run the step that executes    *)
(* that script (the run is one that was not stopped by a failing step).    *)
(***************************************************************************)
step_of(script) ==
    CASE script = "parse_cards.py" -> "extract_cards"
      [] script = "tag_extractor.py" -> "extract_tags"
      [] script = "parse_objective_cards.py" -> "extract_objectives"
      [] script = "crew_recommender.py" -> "train_recommender"

C20_ScriptChangeRebuilds ==
    \A i \in 1..(Len(history) - 1) : \A script \in Scripts :
        (/\ history[i].success
         /\ history[i + 1].touched = {script}
         /\ history[i + 1].success)
        => step_of(script) \in Range(history[i + 1].ran)

(***************************************************************************)
(* C21  Every add_crew call increments n_crews by exactly one, whatever    *)
(* the weight and however many names resolve; a crew none of whose names   *)
(* (leader and members) matches an indexed model leaves the co-occurrence  *)
(* matrix and the appearance vector unchanged.                             *)
(***************************************************************************)
CrewUnknown == Crew(N_zz, "Arcanists", <<N_zz, N_zz>>, R_none)

CrewUnknownNoLeader == Crew(<<>>, "Arcanists", <<N_zz>>, R_none)

AddedCrews == DirectCrews \cup CrewPool \cup {CrewUnknown, CrewUnknownNoLeader}

\* the names a crew gives: its members and its leader, a missing one left out
names_of(crew) == {name \in Range(crew.models) \cup {crew.leader} : name # <<>>}

\* some indexed name equals the name, contains it or is contained in it
matches_indexed(card_db, name) ==
    \E k \in 1..Len(card_db.name_to_id.keys) :
        \/ str_in(str_lower(name), card_db.name_to_id.keys[k])
        \/ str_in(card_db.name_to_id.keys[k], str_lower(name))

counts_one(self, crew, weight) ==
    add_crew(self, crew, weight).n_crews = self.n_crews + 1

unmatched_crew_adds_nothing(self, crew, weight) ==
    (\A name \in names_of(crew) : ~matches_indexed(self.card_db, name)) =>
        /\ add_crew(self, crew, weight).cooccurrence = self.cooccurrence
        /\ add_crew(self, crew, weight).appearance_counts = self.appearance_counts

C21_AddCrewCountsOne ==
    \A crew \in AddedCrews, weight \in Weights :
        /\ counts_one(trainer.cooccurrence, crew, weight)
        /\ unmatched_crew_adds_nothing(trainer.cooccurrence, crew, weight)

(***************************************************************************)
(* C22  Whenever n_crews > 0 and both models have nonzero appearance       *)
(* weight, get_pmi(a, b) is log((P(a,b) + eps) / (P(a) * P(b) + eps)),     *)
(* also for two models that were each observed but never together, where   *)
(* the value is the smoothed, strictly negative one and not 0.0.           *)
(***************************************************************************)
\* 10000 * log((P(a,b) + eps) / (P(a) * P(b) + eps)), from the counts
smoothed_log_ratio(self, a, b) ==
    LET cooc == F32ToTenths(get_cooccurrence(self, a, b))
        count_a == F32ToTenths(appearance_of(self, a))
        count_b == F32ToTenths(appearance_of(self, b))
        n == self.n_crews
        eps == self.config.learning.smoothing_factor
    IN  Ln(10 * n * (cooc + eps * n), count_a * count_b + 10 * eps * n * n)

both_observed(self, a, b) ==
    /\ self.n_crews > 0
    /\ appearance_of(self, a) # F32Zero
    /\ appearance_of(self, b) # F32Zero

C22_PmiIsSmoothedLogRatio ==
    \A self \in Recommenders, a \in ModelIds, b \in ModelIds :
        (a # b /\ both_observed(self.cooccurrence, a, b)) =>
            /\ get_pmi(self.cooccurrence, a, b)
                  = smoothed_log_ratio(self.cooccurrence, a, b)
            /\ get_cooccurrence(self.cooccurrence, a, b) = F32Zero
                  => get_pmi(self.cooccurrence, a, b) < 0

(***************************************************************************)
(* C23  train passes to add_crew a weight strictly above 1.0 for every     *)
(* crew whose result records a win, strictly below 1.0 for every crew      *)
(* whose result records a loss, and exactly 1.0 for every crew with no     *)
(* result, for every configuration.                                        *)
(***************************************************************************)
records_win(crew) == str_lower(crew.result) \in {<<"w", "i", "n">>, <<"w">>}

records_loss(crew) == str_lower(crew.result) \in {<<"l", "o", "s", "s">>, <<"l">>}

TrainedCrews == CrewPool \cup FileCrews

weighted_by_result(self) ==
    \A crew \in TrainedCrews :
        /\ records_win(crew) => crew_weight(self, crew) > 10
        /\ records_loss(crew) => crew_weight(self, crew) < 10
        /\ crew.result = <<>> => crew_weight(self, crew) = 10

InitBootstrap ==
    /\ trainer = <<>>
    /\ observed = <<>>
    /\ model_pkl = <<>>
    /\ loader = <<>>
    /\ pc = [train |-> "start", rec |-> "start"]
    /\ defaults = DEFAULT_CONFIG
    /\ loaded = <<>>
    /\ NoBuild

BootstrapCommand(config_path, cards_file, n) ==
    /\ bootstrap = <<>>
    /\ defaults' = load_config_in(defaults, config_path).defaults
    /\ bootstrap' =
          Some([generator |->
                   SyntheticCrewGenerator(CardDatabase(cards_file),
                                          load_config_in(defaults, config_path).config),
                n_crews |-> n, i |-> 0, crews |-> <<>>, built |-> <<>>,
                returned |-> FALSE])
    /\ UNCHANGED <<trainer, observed, model_pkl, loader, pc, loaded, build_vars>>

\* one iteration of the loop of generate: random.choice(masters) picks the
\* master, the three random.shuffle calls of _build_crew_for_master the order
\* of each pool
GenerateStep ==
    /\ bootstrap # <<>>
    /\ bootstrap[1].i < bootstrap[1].n_crews
    /\ \E master \in Range(masters_of(bootstrap[1].generator)) :
          \E priorities \in {priorities_of(bootstrap[1].generator, master)} :
          \E o1 \in ShuffleOrders(priorities[1].model_pool),
             o2 \in ShuffleOrders(priorities[2].model_pool),
             o3 \in ShuffleOrders(priorities[3].model_pool) :
            \E r \in {_build_crew_for_master(bootstrap[1].generator, master, <<o1, o2, o3>>)} :
               bootstrap' =
                  Some([bootstrap[1] EXCEPT
                           !.i = @ + 1,
                           !.crews = IF IsSome(r.crew) THEN Append(@, r.crew[1]) ELSE @,
                           !.built = Append(@, r)])
    /\ UNCHANGED <<engine_vars, build_vars>>

\* return crews
GenerateReturn ==
    /\ bootstrap # <<>>
    /\ bootstrap[1].i = bootstrap[1].n_crews
    /\ ~bootstrap[1].returned
    /\ bootstrap' = Some([bootstrap[1] EXCEPT !.returned = TRUE])
    /\ UNCHANGED <<engine_vars, build_vars>>

NextBootstrap ==
    \/ \E config_path \in BootstrapConfigPaths, cards_file \in BootstrapCardFiles,
          n \in 0..MaxGenerate :
          BootstrapCommand(config_path, cards_file, n)
    \/ GenerateStep
    \/ GenerateReturn

SpecBootstrap == InitBootstrap /\ [][NextBootstrap]_vars

(***************************************************************************)
(* Properties of the synthetic crew generator.                             *)
(***************************************************************************)
pool_ids_of(model_pool) == {model_pool[k].id : k \in 1..Len(model_pool)}

\* the three pools of a master share no model
pools_are_disjoint(self, master) ==
    LET priorities == priorities_of(self, master)
    IN  \A p, q \in 1..Len(priorities) :
           p # q => pool_ids_of(priorities[p].model_pool)
                       \cap pool_ids_of(priorities[q].model_pool) = {}

\* no model is hired twice into the crew
hired_once(r) ==
    \A j, k \in 1..Len(r.hired) : j # k => r.hired[j].id # r.hired[k].id

\* no hire is a Master
no_master_hired(self, r) ==
    \A k \in 1..Len(r.hired) :
       self.card_db.models.val[r.hired[k].id].station # "Master"

\* C24: in the synthetic crew generator the three hiring pools (keyword,
\* versatile, out of keyword) of every master are pairwise disjoint, no model
\* is hired more than once into one generated crew, and no Master is hired
\* as a member.
C24_PoolsPartitionCandidates ==
    bootstrap # <<>> =>
       LET self == bootstrap[1].generator
           masters == masters_of(self)
       IN  /\ \A c \in 1..Len(masters) : pools_are_disjoint(self, masters[c])
           /\ \A k \in 1..Len(bootstrap[1].built) :
                 /\ hired_once(bootstrap[1].built[k])
                 /\ no_master_hired(self, bootstrap[1].built[k])

\* the process runs on: each iteration of generate and its return happen
SpecBootstrapLive ==
    SpecBootstrap /\ WF_vars(GenerateStep) /\ WF_vars(GenerateReturn)

hired_costs(r) == [k \in 1..Len(r.hired) |-> r.hired[k].effective_cost]

\* every hire is charged its base cost plus the surcharge of its pool
charged_with_surcharge(self, r) ==
    \A k \in 1..Len(r.hired) :
       r.hired[k].effective_cost =
          self.card_db.models.val[r.hired[k].id].cost[1]
             + (IF r.hired[k].pool = 3 THEN 1 ELSE 0)

\* the crew a call of _build_crew_for_master returned is within the budget
\* and the size limits
crew_within_limits(self, r) ==
    IsSome(r.crew) =>
       /\ charged_with_surcharge(self, r)
       /\ SeqSum(hired_costs(r)) = r.crew[1].total_cost
       /\ r.crew[1].total_cost <= self.config.crew_constraints.target_soulstones
       /\ Len(r.crew[1].models) = Len(r.hired) + 1
       /\ Len(r.crew[1].models) >= 4
       /\ Len(r.crew[1].models) <= 7

generated_within_limits ==
    bootstrap # <<>> =>
       /\ \A k \in 1..Len(bootstrap[1].built) :
             crew_within_limits(bootstrap[1].generator, bootstrap[1].built[k])
       /\ LET kept == SelectSeq(bootstrap[1].built, LAMBDA r : IsSome(r.crew))
          IN  bootstrap[1].crews = [k \in 1..Len(kept) |-> kept[k].crew[1]]
       /\ Len(bootstrap[1].crews) <= bootstrap[1].i
       /\ bootstrap[1].i <= bootstrap[1].n_crews

generate_called == bootstrap # <<>>

generate_returned == bootstrap # <<>> /\ bootstrap[1].returned

\* C25: for every crew generate returns, the effective costs (base cost plus
\* pool surcharge) of its hired models add up to its total_cost, which never
\* exceeds target_soulstones; it has at least 4 and at most 7 names with the
\* leader; generate(n) returns at most n crews, and every call returns.
C25_GeneratedCrewsWithinLimits ==
    /\ []generated_within_limits
    /\ generate_called ~> generate_returned

\* generate(2) has returned one crew that spends the whole budget and holds
\* an out-of-keyword hire, and has dropped one crew that was too small
C25_Witness ==
    /\ generate_returned
    /\ bootstrap[1].n_crews = 2
    /\ \E k \in 1..2 : bootstrap[1].built[k].crew = <<>>
    /\ \E k \in 1..2 :
          LET r == bootstrap[1].built[k]
          IN  /\ IsSome(r.crew)
              /\ r.crew[1].total_cost =
                    bootstrap[1].generator.config.crew_constraints.target_soulstones
              /\ \E h \in 1..Len(r.hired) : r.hired[h].pool = 3

(***************************************************************************)
(* Properties of Pipeline.run.                                             *)
(***************************************************************************)
step_index(name) == CHOOSE i \in 1..Len(Steps) : Steps[i] = name

\* the steps of the sequence follow the order of Pipeline.steps
in_step_order(names) ==
    \A j, k \in 1..Len(names) : j < k => step_index(names[j]) < step_index(names[k])

\* the steps a run has run or has found up to date
considered(h) == Range(h.ran) \cup Range(h.up_to_date)

\* the run went through the steps in order and ended at the step that failed
stops_at_first_failure(h) ==
    /\ in_step_order(h.ran)
    /\ in_step_order(h.up_to_date)
    /\ Range(h.ran) \cap Range(h.up_to_date) = {}
    /\ IF h.failed = <<>>
       THEN /\ h.success
            /\ considered(h) = Range(Steps)
       ELSE /\ ~h.success
            /\ h.failed = <<h.ran[Len(h.ran)]>>
            /\ considered(h) = {Steps[i] : i \in 1..step_index(h.failed[1])}

\* C26: Pipeline.run runs steps only in the order extract_cards,
\* extract_tags, extract_objectives, enrich_meta, train_recommender, bundle,
\* and stops at the first step whose run fails: no later step is run or has
\* its staleness evaluated in that invocation, and run returns failure.
C26_RunStopsAtFirstFailure ==
    \A n \in 1..Len(history) : stops_at_first_failure(history[n])

\* a run that found a step up to date, ran a later one, and ended at a step
\* that failed with steps still to come
C26_Witness ==
    \E n \in 1..Len(history) :
       /\ history[n].up_to_date # <<>>
       /\ Len(history[n].ran) >= 2
       /\ history[n].failed # <<>>
       /\ step_index(history[n].failed[1]) < Len(Steps)

(***************************************************************************)
(* C27  An empty name is absent: get_by_name("") returns None, so a crew   *)
(* record whose leader name is missing (parse_crew_file gives it the       *)
(* leader "") adds no appearance and no co-occurrence weight for any model *)
(* on behalf of that leader: add_crew counts its members only, as it does  *)
(* for a leader name that matches no model.                                *)
(***************************************************************************)
LeaderlessCrews == {crew \in AddedCrews \cup FileCrews : crew.leader = <<>>}

with_unknown_leader(crew) == [crew EXCEPT !.leader = N_zz]

C27_EmptyNameIsAbsent ==
    /\ get_by_name(trainer.cooccurrence.card_db, <<>>) = <<>>
    /\ \A crew \in LeaderlessCrews, weight \in Weights :
          /\ ~matches_indexed(trainer.cooccurrence.card_db, N_zz)
          /\ add_crew(trainer.cooccurrence, crew, weight)
                = add_crew(trainer.cooccurrence, with_unknown_leader(crew), weight)

(***************************************************************************)
(* C28  score_pair is symmetric in its two models: for all profiles m1, m2 *)
(* and every leader keyword set, score_pair(m1, m2, L) and                 *)
(* score_pair(m2, m1, L) return the same score and the same set of         *)
(* reasons.                                                                *)
(*                                                                         *)
(* The detail of the shared_keyword and of the shared_condition reason is  *)
(* list(S)[0] of the set S = set(model1...) & set(model2...).  The order   *)
(* in which a CPython set lists its elements depends on the order in which *)
(* they were inserted when their hashes collide, and S is filled in the    *)
(* order of one operand; so the two calls, which build S from the operands *)
(* in opposite order, may each list any element of S first.  They list the *)
(* same one when the two lists are equal.  (The sets of the                *)
(* condition_synergy and marker_synergy reasons are built from the same    *)
(* operands in the same order by both calls.)                              *)
(***************************************************************************)
\* what list(S)[0] can be, "" standing for the case where it is not taken
firsts_of(S) == IF S = {} THEN {""} ELSE S

\* score_pair when list(shared_keywords)[0] is keyword and
\* list(shared_conditions)[0] is condition
score_pair_listing(self, model1, model2, leader_keywords, keyword, condition) ==
    LET pair == score_pair(self, model1, model2, leader_keywords)
        listed(reason) ==
            IF reason[1] = "shared_keyword" THEN <<"shared_keyword", keyword>>
            ELSE IF reason[1] = "shared_condition" THEN <<"shared_condition", condition>>
            ELSE reason
    IN  [score |-> pair.score, reasons |-> {listed(reason) : reason \in pair.reasons}]

specific_shared_keywords(m1, m2) == shared_of(m1, m2) \ GenericKeywords

shared_conditions_of(m1, m2) ==
    Range(m1.conditions_applied) \cap Range(m2.conditions_applied)

SymmetryProfiles(self) ==
    PairProfiles(self)
    \cup {BareProfile("p4", <<"December", "Witch">>, <<"beater">>),
          BareProfile("p5", <<"Witch", "December">>, <<"tank">>)}

LeaderKeywordSets == {{}, {"December"}, {"Witch", "Beast"}}

score_pair_is_symmetric(self, m1, m2, L) ==
    \A k12 \in firsts_of(specific_shared_keywords(m1, m2)),
       k21 \in firsts_of(specific_shared_keywords(m1, m2)),
       c12 \in firsts_of(shared_conditions_of(m1, m2)),
       c21 \in firsts_of(shared_conditions_of(m1, m2)) :
         (/\ m1.keywords = m2.keywords => k12 = k21
          /\ m1.conditions_applied = m2.conditions_applied => c12 = c21)
         => score_pair_listing(self, m1, m2, L, k12, c12)
               = score_pair_listing(self, m2, m1, L, k21, c21)

C28_ScorePairSymmetric ==
    \A self \in Recommenders :
       \A m1 \in SymmetryProfiles(self), m2 \in SymmetryProfiles(self),
          L \in LeaderKeywordSets :
            score_pair_is_symmetric(self.rule_scorer, m1, m2, L)

(***************************************************************************)
(* C29  load_config leaves the built-in defaults unchanged: after any      *)
(* number of load_config calls with user configuration files,              *)
(* DEFAULT_CONFIG still holds its original values, and a later             *)
(* load_config() with no path returns exactly the original defaults.       *)
(***************************************************************************)
C29_DefaultsUnchanged ==
    /\ defaults = DEFAULT_CONFIG
    /\ \A n \in 1..Len(loaded) :
          loaded[n].config_path = <<>> => loaded[n].config = DEFAULT_CONFIG

(***************************************************************************)
(* C30  The build state file is written only at the end of a Pipeline.run  *)
(* in which at least one step ran and every step that ran succeeded; when  *)
(* a step fails, the persisted build state is left exactly as it was       *)
(* before the run, so the input hashes of the steps that succeeded earlier *)
(* in that run are not recorded.                                           *)
(***************************************************************************)
\* the step is a Pipeline.run: it adds its record to the history
is_run == Len(history') = Len(history) + 1

state_saved_only_on_success ==
    is_run =>
       LET h == history'[Len(history')]
       IN  /\ build_state_file' # build_state_file => h.success /\ h.ran # <<>>
           /\ h.failed # <<>> => build_state_file' = build_state_file

C30_StateSavedOnlyOnSuccess == [][state_saved_only_on_success]_vars

\* a run found the state of an earlier build, ran steps that succeeded and
\* then a step that failed, and the state file is still that of the earlier
\* build
C30_Witness ==
    /\ Len(history) = 2
    /\ touched = {}
    /\ history[1].success
    /\ history[1].ran # <<>>
    /\ Len(history[2].ran) >= 2
    /\ history[2].failed # <<>>
    /\ IsSome(build_state_file)
    /\ build_state_file[1].last_build = 1

====
